---- MODULE Spec2Model ----
(***************************************************************************)
(* The kZero self-play server (rust/kz-selfplay/src/server/server.rs):     *)
(* startup validation in selfplay_server_main, the game dispatch, and the  *)
(* scoped thread pipeline wired by selfplay_start.  The bodies of the      *)
(* device threads, the collector and the commander live in modules of the  *)
(* repository that are not part of the sources at hand; they are modelled  *)
(* from the specification (sections 4.1-4.5 and 5).  The module also holds *)
(* the selfuni binary (rust/kz-selfplay/src/bin/selfuni.rs), whose         *)
(* generators play random or solved games on a small heap game that stands *)
(* for the Board trait; the event loop of the tree viewer                  *)
(* (rust/kz-tui/src/main.rs); and the input encoder of Trictrac            *)
(* (rust/kz-core/src/mapping/trictrac.rs).                                 *)
(***************************************************************************)
EXTENDS Integers, Sequences, FiniteSets, TLC

\* ------------------------------------------------------------------ bounds
MaxDevices == 2
MaxCpuThreads == 2
MaxExecutors == 2
BackpressureThreads == 3
MaxBatch == 2
MaxCommands == 1
MaxPanics == 1
MaxSims == 2
MaxGamesPerGen == 2
MaxFirstGen == 1
MaxUpdates == 4
MaxHeap == 2
MaxGameLength == 2
MaxGameCount == 2
MaxThreadCount == 2
MaxTuiHeap == 2
MaxTermWidth == 5
MaxTermHeight == 8
MaxRenderHeap == 4
MaxRenderHeight == 14
MaxViewOffset == 12
MaxStack == 2
MaxDie == 2
MaxTurnStage == 1
MaxBuffered == 1

VARIABLES
    devices,          \* number of CUDA devices in use (server.rs:50-55)
    feature_muzero,   \* whether the build has the "muzero" feature (server.rs:229,241)
    first_command,    \* the first message the client sent (kept for reference)
    conn,             \* client -> server commands not yet read
    conn_closed,      \* the client closed the control connection
    n_sent,           \* commands the client sent after the first
    commands_left,    \* commands the client may still send
    panics_left,      \* Executor panics that may still happen
    n_read,           \* commands the server has read from the connection
    written,          \* kinds of record the server wrote on the control channel
    pc,               \* position of the main thread (the Orchestrator)
    panic_msg,        \* the message of the main thread's panic, "" if none
    startup,          \* the StartupSettings in use
    next_device,      \* device the spawn loop of selfplay_start handles next
    settings_senders, \* Vec<Sender<Settings>>: the Executor each sender feeds
    graph_senders,    \* Vec<GraphSender>: the device each sender feeds
    update_orig,      \* threads holding the update_sender made by flume::bounded
    update_holders,   \* Executors holding a clone of update_sender
    update_chan,      \* the update channel's queue
    exec_pc,          \* Executor -> position
    exec_settings,    \* Executor -> version of the runtime Settings in use
    settings_chan,    \* Executor -> queue of its settings channel
    reply,            \* Executor -> state of its private reply port
    inf_pc,           \* device -> position of its Inference thread
    inf_graph,        \* device -> version of the graph in use (0: dummy)
    graph_chan,       \* device -> queue of its graph channel
    req_chan,         \* device -> queue of its evaluation-request channel
    batch,            \* device -> requests drained into the current batch
    col_pc,           \* position of the Collector
    shards,           \* shard files the Collector has created
    cmd_pc,           \* position of the Commander
    cmd_idx,          \* index of the next sender of the current broadcast
    cmd_val,          \* value being broadcast
    last_settings,    \* latest Settings version broadcast to every sender
    last_graph,       \* latest graph version broadcast to every sender
    sims_left,        \* updates (finished games) the senders may still produce
    dispatched,       \* the calls of selfplay_start made by the dispatch
    shard_log,        \* the shards the Collector has sealed, oldest first
    curr_gen,         \* index of the shard the Collector has open
    curr_games,       \* simulations written to the open shard
    args,             \* selfuni: the command line (selfuni.rs:37-51)
    gen_pc,           \* selfuni: generator thread -> position
    gen_board,        \* selfuni: generator thread -> board of the game in play
    gen_positions,    \* selfuni: generator thread -> positions recorded so far
    sim_chan,         \* selfuni: queue of the channel of main_impl
    receiver_open,    \* selfuni: the channel's receiver has not been dropped
    games_received,   \* selfuni: simulations main_collector has appended
    mc_pc,            \* selfuni: position of main_collector (the main thread)
    sims_sent,        \* selfuni: Simulations the generators have sent
    sim_tags,         \* selfuni: for each entry of sim_chan, the send that put
                      \* it there (a Simulation is moved, never copied)
    output,           \* selfuni: the sends whose Simulation was appended to
                      \* the output, in the order of the appends
    finish_calls,     \* selfuni: calls of output.finish()
    tree,             \* kz-tui: the Search Tree (root board and nodes)
    requests,         \* kz-tui: the queue of outstanding requests
    board_cache,      \* kz-tui: node -> memoized board
    prev_nodes,       \* kz-tui: the rows collected by the last prepare_render
    expanded_nodes,   \* kz-tui: the nodes whose children are listed
    selected_node,    \* kz-tui: the selected node
    view_offset,      \* kz-tui: index of the first row of the window
    prev_area,        \* kz-tui: the area of the last draw
    tui_pc,           \* kz-tui: position of the event loop of main_impl
    tui_panic,        \* kz-tui: the failure that ended the event loop
    gathered,         \* kz-tui: nodes requested by gather_step, in order
    applied,          \* kz-tui: nodes of the queue's requests applied, in order
    game_state,       \* trictrac: the board given to encode_input
    bools,            \* trictrac: the BitBuffer encode_input appends to
    scalars,          \* trictrac: the Vec<f32> encode_input appends to
    enc_pc            \* trictrac: position of the caller of encode_input

vars == << devices, feature_muzero, first_command, conn, conn_closed, n_sent,
           commands_left, panics_left, n_read, written, pc, panic_msg, startup, next_device,
           settings_senders, graph_senders, update_orig, update_holders,
           update_chan, exec_pc, exec_settings, settings_chan, reply, inf_pc, inf_graph,
           graph_chan, req_chan, batch, col_pc, shards, cmd_pc, cmd_idx,
           cmd_val, last_settings, last_graph, sims_left, dispatched,
           shard_log, curr_gen, curr_games, args, gen_pc, gen_board,
           gen_positions, sim_chan, receiver_open, games_received, mc_pc,
           sim_tags, sims_sent, output, finish_calls, tree, requests,
           board_cache, prev_nodes, expanded_nodes, selected_node, view_offset,
           prev_area, tui_pc, tui_panic, gathered, applied, game_state, bools,
           scalars, enc_pc >>

\* What a run never changes: the devices, the build, the first message.
config == << devices, feature_muzero, first_command >>

\* The shard bookkeeping of the Collector.
collector == << shard_log, curr_gen, curr_games >>

\* The variables of the input encoder of Trictrac.
encoder == << game_state, bools, scalars, enc_pc >>

\* The variables of the viewer kz-tui.
tui == << tree, requests, board_cache, prev_nodes, expanded_nodes,
         selected_node, view_offset, prev_area, tui_pc, tui_panic, gathered,
         applied >>

\* The state of the selfuni binary, which the server never touches.
selfuni == << args, gen_pc, gen_board, gen_positions, sim_chan, receiver_open,
             games_received, mc_pc, sim_tags, sims_sent, output, finish_calls >>

\* ------------------------------------------------------------------ helpers
Range(s) == { s[i] : i \in DOMAIN s }

Min(a, b) == IF a <= b THEN a ELSE b

\* The first n elements of s (all of s when it is shorter).
Take(s, n) == SubSeq(s, 1, Min(n, Len(s)))

\* s without its first n elements.
Drop(s, n) == SubSeq(s, Min(n, Len(s)) + 1, Len(s))

\* ------------------------------------------------------- startup validation
Games == { "ttt", "sttt", "ataxx", "chess", "chess-hist", "arimaa-split",
           "trictrac", "go" }

AltGames == { "ttt", "sttt", "ataxx", "chess", "chess-hist" }

FixedStartGames == { "ttt", "sttt", "chess", "chess-hist", "arimaa-split",
                     "trictrac" }

StartupSettings(game, muzero, start_pos, exists, absolute, cpu, gpu, root, search) ==
    [ game |-> game, muzero |-> muzero, start_pos |-> start_pos,
      folder_exists |-> exists, folder_absolute |-> absolute,
      cpu_threads_per_device |-> cpu, gpu_batch_size |-> gpu,
      gpu_batch_size_root |-> root, search_batch_size |-> search,
      games_per_gen |-> 1, first_gen |-> 0 ]

\* s with the given games per shard and index of the first shard.
WithShards(s, games_per_gen, first_gen) ==
    [ s EXCEPT !.games_per_gen = games_per_gen, !.first_gen = first_gen ]

\* The settings a run falls back to before any StartupSettings is known.
NoStartup == StartupSettings("ttt", FALSE, "default", TRUE, TRUE, 1, 1, 1, 1)

Command(kind, payload, value) == [ kind |-> kind, startup |-> payload, value |-> value ]

ErrNotStartup == "Must receive startup settings before any other command"
ErrGpuZero == "GPU batch size cannot be 0"
ErrSearchZero == "Search batch size cannot be 0"
ErrGpuSmaller == "It's not useful to have a GPU batch size smaller than the search batch size"
ErrRootZero == "For muzero root batch size must be nonzero"
ErrMuSearch == "For muzero search batch size must be 1, minibatching is not yet supported"
ErrNoFolder == "Output folder does not exist"
ErrRelFolder == "Output folder is not an absolute path"
ErrGame == "Unknown game"
ErrStartPos == "assertion failed: start_pos == default"
ErrNoFeature == "MuZero feature was not enabled"
ErrNonAlt == "MuZero only supports alternating boards for now"

\* wait_for_startup_settings: the command is StartupSettings, or the thread panics.
wait_for_startup_settings_lenient(cmd) == ""

wait_for_startup_settings(cmd) ==
    IF cmd.kind = "StartupSettings" THEN "" ELSE ErrNotStartup

\* The three batch-size assertions, in the order of the code.
BatchSizeError_no_order(s) ==
    IF s.gpu_batch_size = 0 THEN ErrGpuZero
    ELSE IF s.search_batch_size = 0 THEN ErrSearchZero
    ELSE ""

BatchSizeError(s) ==
    IF s.gpu_batch_size = 0 THEN ErrGpuZero
    ELSE IF s.search_batch_size = 0 THEN ErrSearchZero
    ELSE IF ~(s.gpu_batch_size >= s.search_batch_size) THEN ErrGpuSmaller
    ELSE ""

\* The MuZero assertions.
MuZeroError_no_search(s) ==
    IF s.muzero /\ s.gpu_batch_size_root = 0 THEN ErrRootZero ELSE ""

MuZeroError(s) ==
    IF ~s.muzero THEN ""
    ELSE IF s.gpu_batch_size_root = 0 THEN ErrRootZero
    ELSE IF s.search_batch_size # 1 THEN ErrMuSearch
    ELSE ""

\* The output folder assertions.
FolderError_exists_only(s) == IF ~s.folder_exists THEN ErrNoFolder ELSE ""

FolderError(s) ==
    IF ~s.folder_exists THEN ErrNoFolder
    ELSE IF ~s.folder_absolute THEN ErrRelFolder
    ELSE ""

\* Game::parse(..).unwrap_or_else(panic).
GameError(s) == IF s.game \in Games THEN "" ELSE ErrGame

\* selfplay_start_dispatch_spec_alt: MuZero needs the build's feature.
DispatchSpecAltError(s, feature) ==
    IF s.muzero /\ ~feature THEN ErrNoFeature ELSE ""

\* selfplay_start_dispatch_spec_non_alt: MuZero is refused.
DispatchSpecNonAltError_allow(s) == ""

DispatchSpecNonAltError(s) == IF s.muzero THEN ErrNonAlt ELSE ""

\* selfplay_start_dispatch_game: the start position assertion of the games with
\* a fixed start position, then the dispatch on the kind of board.
DispatchGameError(s, feature) ==
    IF s.game \in FixedStartGames /\ s.start_pos # "default" THEN ErrStartPos
    ELSE IF s.game \in AltGames THEN DispatchSpecAltError(s, feature)
    ELSE DispatchSpecNonAltError(s)

\* The board, the mapper and the start position function of each arm of the
\* match on the game.
GameArm(game) ==
    CASE game = "ttt" ->
           [ board |-> "TTTBoard", mapper |-> "TTTStdMapper", start_pos |-> "default" ]
      [] game = "sttt" ->
           [ board |-> "STTTBoard", mapper |-> "STTTStdMapper", start_pos |-> "default" ]
      [] game = "ataxx" ->
           [ board |-> "AtaxxBoard", mapper |-> "AtaxxStdMapper",
             start_pos |-> "ataxx_start_pos" ]
      [] game = "chess" ->
           [ board |-> "ChessBoard", mapper |-> "ChessStdMapper", start_pos |-> "default" ]
      [] game = "chess-hist" ->
           [ board |-> "ChessBoard", mapper |-> "ChessHistoryMapper",
             start_pos |-> "default" ]
      [] game = "arimaa-split" ->
           [ board |-> "ArimaaBoard", mapper |-> "ArimaaSplitMapper",
             start_pos |-> "default" ]
      [] game = "trictrac" ->
           [ board |-> "TrictracBoard", mapper |-> "TrictracStdMapper",
             start_pos |-> "default" ]
      [] game = "go" ->
           [ board |-> "GoBoard", mapper |-> "GoStdMapper", start_pos |-> "go_start_pos" ]

\* The call of selfplay_start an arm ends in: the game, the arm's board,
\* mapper and start position function, and the specialization.
StartCall(s) ==
    [ game |-> s.game, board |-> GameArm(s.game).board,
      mapper |-> GameArm(s.game).mapper, start_pos |-> GameArm(s.game).start_pos,
      spec |-> IF s.muzero THEN "MuZeroSpecialization" ELSE "AlphaZeroSpecialization" ]

\* The calls of selfplay_start that selfplay_start_dispatch_game makes for a
\* parsed game, in order: one, unless the arm panics first.
selfplay_start_dispatch_game_no_go(s, feature) ==
    IF DispatchGameError(s, feature) # "" \/ s.game = "go" THEN << >>
    ELSE << StartCall(s) >>

selfplay_start_dispatch_game(s, feature) ==
    IF DispatchGameError(s, feature) # "" THEN << >> ELSE << StartCall(s) >>

\* The MuZeroMapper methods of the mapper panic with "not implemented".
MuZeroMapperPanics(mapper) == mapper = "TrictracStdMapper"

\* The first failure of selfplay_server_main on its first command, "" if none.
StartupError(cmd, feature) ==
    LET s == cmd.startup IN
    IF wait_for_startup_settings(cmd) # "" THEN wait_for_startup_settings(cmd)
    ELSE IF BatchSizeError(s) # "" THEN BatchSizeError(s)
    ELSE IF MuZeroError(s) # "" THEN MuZeroError(s)
    ELSE IF FolderError(s) # "" THEN FolderError(s)
    ELSE IF GameError(s) # "" THEN GameError(s)
    ELSE DispatchGameError(s, feature)


\* ------------------------------------------------------------ the pipeline
\* Executors are numbered device by device: device d runs the Executors
\* (d-1)*cpu_threads_per_device + 1 .. d*cpu_threads_per_device.
ExecutorsOf(d) ==
    { (d - 1) * startup.cpu_threads_per_device + k :
        k \in 1 .. startup.cpu_threads_per_device }

DeviceOf(e) == ((e - 1) \div startup.cpu_threads_per_device) + 1

Spawned == DOMAIN exec_pc

Terminated(e) == exec_pc[e] \in { "done", "panicked" }

\* let total_cpu_threads = startup.cpu_threads_per_device * devices.len();
\* flume::bounded(total_cpu_threads)
UpdateCapacity_doubled(s, n) == 2 * (s.cpu_threads_per_device * n)

UpdateCapacity(s, n) == s.cpu_threads_per_device * n

\* The evaluation-request channel of a device has capacity gpu_batch_size * 2.
RequestCapacity(s) == s.gpu_batch_size * 2

\* What spawn_device_threads returns for device d: one settings sender per
\* Executor of the device and one graph sender for its Inference thread.
spawn_device_threads(d) ==
    [ settings |-> [ k \in 1 .. startup.cpu_threads_per_device |->
                       (d - 1) * startup.cpu_threads_per_device + k ],
      graph |-> << d >> ]

\* settings_senders.append(&mut new_settings_senders), and the same for graphs.
AppendSenders_overwrite(old, new) == new

AppendSenders(old, new) == old \o new

\* The commander closure is `move`: the original update_sender leaves the main
\* thread for the Commander.
CommanderUpdateHolders_clone(h) == h \cup { "commander" }

CommanderUpdateHolders(h) == (h \ { "main" }) \cup { "commander" }

\* crossbeam::scope returns once every thread spawned in it has terminated.
ScopeJoined_no_wait == TRUE

ScopeJoined ==
    /\ \A e \in Spawned : Terminated(e)
    /\ \A d \in DOMAIN inf_pc : inf_pc[d] = "done"
    /\ col_pc = "done"
    /\ cmd_pc = "done"

\* Some thread of the scope panicked: crossbeam::scope(..) is an Err.
ScopePanicked == \E e \in Spawned : exec_pc[e] = "panicked"

ErrScope == "called Result::unwrap() on an Err value"

\* ------------------------------------------------------------- main thread
\* selfplay_server_main up to the entry of selfplay_start: read the first
\* command, validate it, dispatch on the game.
selfplay_server_main ==
    /\ pc = "startup"
    /\ conn # << >>
    /\ LET cmd == Head(conn)
           err == StartupError(cmd, feature_muzero)
           calls == IF err = ""
                    THEN selfplay_start_dispatch_game(cmd.startup, feature_muzero)
                    ELSE << >>
       IN /\ conn' = Tail(conn)
          /\ n_read' = n_read + 1
          /\ dispatched' = dispatched \o calls
          /\ IF err # ""
             THEN /\ pc' = "panicked"
                  /\ panic_msg' = err
                  /\ UNCHANGED << startup, update_orig >>
             ELSE IF calls # << >>
             THEN /\ startup' = cmd.startup
                  /\ pc' = "spawn_devices"
                  /\ update_orig' = { "main" }
                  /\ panic_msg' = panic_msg
             ELSE /\ pc' = "returned"
                  /\ UNCHANGED << startup, update_orig, panic_msg >>
    /\ UNCHANGED << config, selfuni, tui, encoder, sims_left, collector,
                    commands_left, panics_left, conn_closed, n_sent,
                    written, next_device, settings_senders, graph_senders,
                    update_holders, update_chan, exec_pc, exec_settings,
                    settings_chan, reply, inf_pc, inf_graph, graph_chan,
                    req_chan, batch, col_pc, shards, cmd_pc, cmd_idx, cmd_val,
                    last_settings, last_graph >>

\* One turn of the loop over the devices in selfplay_start.
SpawnDevice ==
    /\ pc = "spawn_devices"
    /\ next_device <= devices
    /\ LET d == next_device
           new == spawn_device_threads(d)
           es == ExecutorsOf(d)
       IN /\ settings_senders' = AppendSenders(settings_senders, new.settings)
          /\ graph_senders' = AppendSenders(graph_senders, new.graph)
          /\ update_holders' = update_holders \cup es
          /\ exec_pc' = exec_pc @@ [ e \in es |-> "boundary" ]
          /\ exec_settings' = exec_settings @@ [ e \in es |-> 0 ]
          /\ settings_chan' = settings_chan @@ [ e \in es |-> << >> ]
          /\ reply' = reply @@ [ e \in es |-> "none" ]
          /\ inf_pc' = inf_pc @@ (d :> "poll")
          /\ inf_graph' = inf_graph @@ (d :> 0)
          /\ graph_chan' = graph_chan @@ (d :> << >>)
          /\ req_chan' = req_chan @@ (d :> << >>)
          /\ batch' = batch @@ (d :> << >>)
          /\ next_device' = d + 1
    /\ UNCHANGED << config, selfuni, tui, encoder, sims_left, dispatched, collector,
                    commands_left, panics_left, conn, conn_closed,
                    n_sent, n_read, written, pc, panic_msg, startup, update_orig,
                    update_chan, col_pc, shards, cmd_pc, cmd_idx, cmd_val,
                    last_settings, last_graph >>

SpawnCollector ==
    /\ pc = "spawn_devices"
    /\ next_device > devices
    /\ pc' = "spawn_commander"
    /\ col_pc' = "running"
    /\ shards' = 1
    /\ shard_log' = << >>
    /\ curr_gen' = startup.first_gen
    /\ curr_games' = 0
    /\ UNCHANGED << config, selfuni, tui, encoder, sims_left, dispatched,
                    commands_left, panics_left, conn, conn_closed,
                    n_sent, n_read, written, panic_msg, startup, next_device,
                    settings_senders, graph_senders, update_orig, update_holders,
                    update_chan, exec_pc, exec_settings, settings_chan, reply,
                    inf_pc, inf_graph, graph_chan, req_chan, batch, cmd_pc,
                    cmd_idx, cmd_val, last_settings, last_graph >>

SpawnCommander ==
    /\ pc = "spawn_commander"
    /\ pc' = "join"
    /\ cmd_pc' = "read"
    /\ update_orig' = CommanderUpdateHolders(update_orig)
    /\ UNCHANGED << config, selfuni, tui, encoder, sims_left, dispatched, collector,
                    commands_left, panics_left, conn, conn_closed,
                    n_sent, n_read, written, panic_msg, startup, next_device,
                    settings_senders, graph_senders, update_holders,
                    update_chan, exec_pc,
                    exec_settings, settings_chan, reply, inf_pc, inf_graph,
                    graph_chan, req_chan, batch, col_pc, shards, cmd_idx,
                    cmd_val, last_settings, last_graph >>

\* The end of the scope: join every thread, then unwrap the result.
ScopeJoin ==
    /\ pc = "join"
    /\ ScopeJoined
    /\ IF ScopePanicked
       THEN pc' = "panicked" /\ panic_msg' = ErrScope
       ELSE pc' = "returned" /\ panic_msg' = panic_msg
    /\ update_orig' = update_orig \ { "main" }
    /\ UNCHANGED << config, selfuni, tui, encoder, sims_left, dispatched, collector,
                    commands_left, panics_left, conn, conn_closed,
                    n_sent, n_read, written, startup, next_device,
                    settings_senders, graph_senders, update_holders,
                    update_chan, exec_pc,
                    exec_settings, settings_chan, reply, inf_pc, inf_graph,
                    graph_chan, req_chan, batch, col_pc, shards, cmd_pc, cmd_idx,
                    cmd_val, last_settings, last_graph >>


\* ---------------------------------------------------------------- Executor
\* Every handle the Executor owns is dropped when its thread ends: its clone of
\* update_sender, its request sender, its settings receiver.
ExecutorEnds(e, how) ==
    /\ exec_pc' = [ exec_pc EXCEPT ![e] = how ]
    /\ update_holders' = update_holders \ { e }
    /\ settings_chan' = [ settings_chan EXCEPT ![e] = << >> ]
    /\ reply' = [ reply EXCEPT ![e] = "none" ]

\* The Executor is between two moves: the last move was selected and the
\* search of the next one has not gathered yet.
AtMoveBoundary_any_gather(e) == exec_pc[e] \in { "boundary", "search" }

AtMoveBoundary(e) == exec_pc[e] = "boundary"

\* Between moves: poll the settings channel without blocking; a closed channel
\* ends the thread.
E_Poll(e) ==
    /\ AtMoveBoundary(e)
    /\ IF settings_chan[e] # << >>
       THEN /\ exec_settings' = [ exec_settings EXCEPT ![e] = Head(settings_chan[e]) ]
            /\ settings_chan' = [ settings_chan EXCEPT ![e] = Tail(settings_chan[e]) ]
            /\ exec_pc' = [ exec_pc EXCEPT ![e] = "search" ]
            /\ UNCHANGED << update_holders, reply >>
       ELSE IF e \in Range(settings_senders)
       THEN /\ exec_pc' = [ exec_pc EXCEPT ![e] = "search" ]
            /\ UNCHANGED << exec_settings, settings_chan, update_holders, reply >>
       ELSE /\ ExecutorEnds(e, "done")
            /\ UNCHANGED exec_settings
    /\ UNCHANGED << config, selfuni, tui, encoder, sims_left, dispatched, collector,
                    commands_left, panics_left, conn, conn_closed,
                    n_sent, n_read, written, pc, panic_msg, startup, next_device,
                    settings_senders, graph_senders, update_orig, update_chan,
                    inf_pc, inf_graph, graph_chan, req_chan, batch, col_pc,
                    shards, cmd_pc, cmd_idx, cmd_val, last_settings, last_graph >>

\* gather returns an Evaluation Request.
E_GatherRequest(e) ==
    /\ exec_pc[e] = "search"
    /\ exec_pc' = [ exec_pc EXCEPT ![e] = "send_req" ]
    /\ UNCHANGED << config, selfuni, tui, encoder, sims_left, dispatched, collector,
                    commands_left, panics_left, conn, conn_closed,
                    n_sent, n_read, written, pc, panic_msg, startup, next_device,
                    settings_senders, graph_senders, update_orig, update_holders,
                    update_chan, exec_settings, settings_chan, reply, inf_pc,
                    inf_graph, graph_chan, req_chan, batch, col_pc, shards,
                    cmd_pc, cmd_idx, cmd_val, last_settings, last_graph >>

\* The visit budget of the move is reached and the move is played: the game
\* goes on (next move boundary) or is over (a Simulation is to be sent).
E_MoveDone(e) ==
    /\ exec_pc[e] = "search"
    /\ \/ /\ exec_pc' = [ exec_pc EXCEPT ![e] = "boundary" ]
          /\ UNCHANGED sims_left
       \/ /\ sims_left > 0
          /\ sims_left' = sims_left - 1
          /\ exec_pc' = [ exec_pc EXCEPT ![e] = "send_sim" ]
    /\ UNCHANGED << config, selfuni, tui, encoder, dispatched, collector,
                    commands_left, panics_left, conn, conn_closed,
                    n_sent, n_read, written, pc, panic_msg, startup, next_device,
                    settings_senders, graph_senders, update_orig, update_holders,
                    update_chan, exec_settings, settings_chan, reply, inf_pc,
                    inf_graph, graph_chan, req_chan, batch, col_pc, shards,
                    cmd_pc, cmd_idx, cmd_val, last_settings, last_graph >>

\* Blocking send on the device's request channel; the thread ends when the
\* Inference thread has dropped the receiver.
E_SendRequest(e) ==
    /\ exec_pc[e] = "send_req"
    /\ LET d == DeviceOf(e) IN
       IF inf_pc[d] = "done"
       THEN /\ ExecutorEnds(e, "done")
            /\ UNCHANGED req_chan
       ELSE /\ Len(req_chan[d]) < RequestCapacity(startup)
            /\ req_chan' = [ req_chan EXCEPT ![d] = Append(@, e) ]
            /\ reply' = [ reply EXCEPT ![e] = "pending" ]
            /\ exec_pc' = [ exec_pc EXCEPT ![e] = "await" ]
            /\ UNCHANGED << update_holders, settings_chan >>
    /\ UNCHANGED << config, selfuni, tui, encoder, sims_left, dispatched, collector,
                    commands_left, panics_left, conn, conn_closed,
                    n_sent, n_read, written, pc, panic_msg, startup, next_device,
                    settings_senders, graph_senders, update_orig, update_chan,
                    exec_settings, inf_pc, inf_graph, graph_chan, batch, col_pc,
                    shards, cmd_pc, cmd_idx, cmd_val, last_settings, last_graph >>

\* The reply arrived: apply it to the tree and go on searching.
E_Apply(e) ==
    /\ exec_pc[e] = "await"
    /\ reply[e] = "ready"
    /\ reply' = [ reply EXCEPT ![e] = "none" ]
    /\ exec_pc' = [ exec_pc EXCEPT ![e] = "search" ]
    /\ UNCHANGED << config, selfuni, tui, encoder, sims_left, dispatched, collector,
                    commands_left, panics_left, conn, conn_closed,
                    n_sent, n_read, written, pc, panic_msg, startup, next_device,
                    settings_senders, graph_senders, update_orig, update_holders,
                    update_chan, exec_settings, settings_chan, inf_pc, inf_graph,
                    graph_chan, req_chan, batch, col_pc, shards, cmd_pc, cmd_idx,
                    cmd_val, last_settings, last_graph >>

\* What an Executor sends for the tree of a request whose reply port was
\* dropped: nothing, the tree is dropped with the positions played so far.
OnReplyDropped_flush(e) == << "PartialSimulation" >>

OnReplyDropped(e) == << >>

\* The reply port was dropped: the call is terminal, the tree is dropped.
E_ReplyDropped(e) ==
    /\ exec_pc[e] = "await"
    /\ reply[e] = "dropped"
    /\ ExecutorEnds(e, "done")
    /\ update_chan' = update_chan \o OnReplyDropped(e)
    /\ UNCHANGED << config, selfuni, tui, encoder, sims_left, dispatched, collector,
                    commands_left, panics_left, conn, conn_closed,
                    n_sent, n_read, written, pc, panic_msg, startup, next_device,
                    settings_senders, graph_senders, update_orig,
                    exec_settings, inf_pc, inf_graph, graph_chan, req_chan, batch,
                    col_pc, shards, cmd_pc, cmd_idx, cmd_val, last_settings,
                    last_graph >>

\* Blocking send of the finished game on the update channel; the thread ends
\* when the Collector has dropped the receiver.
E_SendSimulation(e) ==
    /\ exec_pc[e] = "send_sim"
    /\ IF col_pc = "done"
       THEN /\ ExecutorEnds(e, "done")
            /\ UNCHANGED update_chan
       ELSE /\ Len(update_chan) < UpdateCapacity(startup, devices)
            /\ update_chan' = Append(update_chan, "Simulation")
            /\ exec_pc' = [ exec_pc EXCEPT ![e] = "boundary" ]
            /\ UNCHANGED << update_holders, settings_chan, reply >>
    /\ UNCHANGED << config, selfuni, tui, encoder, sims_left, dispatched, collector,
                    commands_left, panics_left, conn, conn_closed,
                    n_sent, n_read, written, pc, panic_msg, startup, next_device,
                    settings_senders, graph_senders, update_orig, exec_settings,
                    inf_pc, inf_graph, graph_chan, req_chan, batch, col_pc,
                    shards, cmd_pc, cmd_idx, cmd_val, last_settings, last_graph >>

\* A panic in gather (while searching) or in apply (on a reply) aborts the
\* Executor.
E_Panic(e) ==
    /\ \/ exec_pc[e] = "search"
       \/ exec_pc[e] = "await" /\ reply[e] = "ready"
    /\ panics_left > 0
    /\ panics_left' = panics_left - 1
    /\ ExecutorEnds(e, "panicked")
    /\ UNCHANGED << config, selfuni, tui, encoder, sims_left, dispatched, collector,
                    commands_left, conn, conn_closed,
                    n_sent, n_read, written, pc, panic_msg, startup, next_device,
                    settings_senders, graph_senders, update_orig, update_chan,
                    exec_settings, inf_pc, inf_graph, graph_chan, req_chan, batch,
                    col_pc, shards, cmd_pc, cmd_idx, cmd_val, last_settings,
                    last_graph >>


\* --------------------------------------------------------------- Inference
\* The thread ends: its request receiver and the requests it holds are
\* dropped, and with them the reply ports of those requests.
InferenceEnds(d) ==
    /\ inf_pc' = [ inf_pc EXCEPT ![d] = "done" ]
    /\ reply' = [ e \in DOMAIN reply |->
                    IF e \in Range(req_chan[d]) \cup Range(batch[d])
                       /\ reply[e] = "pending"
                    THEN "dropped" ELSE reply[e] ]
    /\ req_chan' = [ req_chan EXCEPT ![d] = << >> ]
    /\ batch' = [ batch EXCEPT ![d] = << >> ]
    /\ graph_chan' = [ graph_chan EXCEPT ![d] = << >> ]

\* The Inference thread is between two batches: every response of the last
\* batch was sent and the next batch has not been drained.
BetweenBatches_before_responses(d) == inf_pc[d] \in { "poll", "respond" }

BetweenBatches(d) == inf_pc[d] = "poll"

\* Between batches: poll the graph channel without blocking and swap the graph;
\* a closed channel ends the thread.
I_Poll(d) ==
    /\ BetweenBatches(d)
    /\ IF graph_chan[d] # << >>
       THEN /\ inf_graph' = [ inf_graph EXCEPT ![d] = Head(graph_chan[d]) ]
            /\ graph_chan' = [ graph_chan EXCEPT ![d] = Tail(graph_chan[d]) ]
            /\ inf_pc' = [ inf_pc EXCEPT ![d] = "drain" ]
            /\ UNCHANGED << reply, req_chan, batch >>
       ELSE IF d \in Range(graph_senders)
       THEN /\ inf_pc' = [ inf_pc EXCEPT ![d] = "drain" ]
            /\ UNCHANGED << inf_graph, graph_chan, reply, req_chan, batch >>
       ELSE /\ InferenceEnds(d)
            /\ UNCHANGED inf_graph
    /\ UNCHANGED << config, selfuni, tui, encoder, sims_left, dispatched, collector,
                    commands_left, panics_left, conn, conn_closed,
                    n_sent, n_read, written, pc, panic_msg, startup, next_device,
                    settings_senders, graph_senders, update_orig, update_holders,
                    update_chan, exec_pc, exec_settings, settings_chan, col_pc,
                    shards, cmd_pc, cmd_idx, cmd_val, last_settings, last_graph >>

\* Drain up to gpu_batch_size requests, blocking for at least one; the thread
\* ends when every request sender of the device is gone.
I_Drain(d) ==
    /\ inf_pc[d] = "drain"
    /\ IF req_chan[d] # << >>
       THEN /\ batch' = [ batch EXCEPT ![d] = Take(req_chan[d], startup.gpu_batch_size) ]
            /\ req_chan' = [ req_chan EXCEPT ![d] = Drop(@, startup.gpu_batch_size) ]
            /\ inf_pc' = [ inf_pc EXCEPT ![d] = "respond" ]
            /\ UNCHANGED << reply, graph_chan >>
       ELSE /\ \A e \in ExecutorsOf(d) : Terminated(e)
            /\ InferenceEnds(d)
    /\ UNCHANGED << config, selfuni, tui, encoder, sims_left, dispatched, collector,
                    commands_left, panics_left, conn, conn_closed,
                    n_sent, n_read, written, pc, panic_msg, startup, next_device,
                    settings_senders, graph_senders, update_orig, update_holders,
                    update_chan, exec_pc, exec_settings, settings_chan, inf_graph,
                    col_pc, shards, cmd_pc, cmd_idx, cmd_val, last_settings,
                    last_graph >>

\* The forward pass, then one response on each request's reply port.
I_Respond(d) ==
    /\ inf_pc[d] = "respond"
    /\ reply' = [ e \in DOMAIN reply |->
                    IF e \in Range(batch[d]) /\ reply[e] = "pending"
                    THEN "ready" ELSE reply[e] ]
    /\ batch' = [ batch EXCEPT ![d] = << >> ]
    /\ inf_pc' = [ inf_pc EXCEPT ![d] = "poll" ]
    /\ UNCHANGED << config, selfuni, tui, encoder, sims_left, dispatched, collector,
                    commands_left, panics_left, conn, conn_closed,
                    n_sent, n_read, written, pc, panic_msg, startup, next_device,
                    settings_senders, graph_senders, update_orig, update_holders,
                    update_chan, exec_pc, exec_settings, settings_chan, inf_graph,
                    graph_chan, req_chan, col_pc, shards, cmd_pc, cmd_idx,
                    cmd_val, last_settings, last_graph >>

\* --------------------------------------------------------------- Collector
\* Sealing flushes the open shard: it is recorded with its index and the
\* number of simulations written to it.
Seal(log, gen, games) == Append(log, [ gen |-> gen, games |-> games ])

\* The updates that carry a simulation.
SimulationUpdates == { "Simulation", "PartialSimulation" }

\* Receive one update and report on the control channel.  A simulation is
\* appended to the open shard; the shard is sealed when games_per_gen games
\* have been written to it or on a generation boundary, and the next shard,
\* of index prev + 1, is opened.  The thread ends when the channel is empty
\* and every sender is gone; the open shard is then sealed with the
\* simulations received so far.
C_Receive ==
    /\ col_pc = "running"
    /\ IF update_chan # << >>
       THEN LET m == Head(update_chan)
                games == IF m \in SimulationUpdates THEN curr_games + 1 ELSE curr_games
                full == m \in SimulationUpdates /\ games >= startup.games_per_gen
            IN /\ update_chan' = Tail(update_chan)
               /\ written' = written \cup { "Update" }
               /\ IF full \/ m = "GenerationBoundary"
                  THEN /\ shard_log' = Seal(shard_log, curr_gen, games)
                       /\ curr_gen' = curr_gen + 1
                       /\ curr_games' = 0
                       /\ shards' = shards + 1
                  ELSE /\ curr_games' = games
                       /\ UNCHANGED << shard_log, curr_gen, shards >>
               /\ UNCHANGED col_pc
       ELSE /\ update_orig = { }
            /\ update_holders = { }
            /\ col_pc' = "done"
            /\ shard_log' = Seal(shard_log, curr_gen, curr_games)
            /\ UNCHANGED << update_chan, written, curr_gen, curr_games, shards >>
    /\ UNCHANGED << config, selfuni, tui, encoder, sims_left, dispatched,
                    commands_left, panics_left, conn, conn_closed,
                    n_sent, n_read, pc, panic_msg, startup, next_device,
                    settings_senders, graph_senders, update_orig, update_holders,
                    exec_pc, exec_settings, settings_chan, reply, inf_pc,
                    inf_graph, graph_chan, req_chan, batch, cmd_pc,
                    cmd_idx, cmd_val, last_settings, last_graph >>

\* A thread holding an update sender sends a finished game or a generation
\* boundary.
Upd_Send ==
    /\ update_orig # { }
    /\ sims_left > 0
    /\ Len(update_chan) < UpdateCapacity(startup, devices)
    /\ \E m \in { "Simulation", "GenerationBoundary" } :
          update_chan' = Append(update_chan, m)
    /\ sims_left' = sims_left - 1
    /\ UNCHANGED << config, selfuni, tui, encoder, dispatched, collector,
                    commands_left, panics_left, conn, conn_closed,
                    n_sent, n_read, written, pc, panic_msg, startup, next_device,
                    settings_senders, graph_senders, update_orig, update_holders,
                    exec_pc, exec_settings, settings_chan, reply, inf_pc,
                    inf_graph, graph_chan, req_chan, batch, col_pc, shards,
                    cmd_pc, cmd_idx, cmd_val, last_settings, last_graph >>

\* The last update sender is dropped.
Upd_Close ==
    /\ update_orig # { }
    /\ update_orig' = { }
    /\ UNCHANGED << config, selfuni, tui, encoder, sims_left, dispatched, collector,
                    commands_left, panics_left, conn, conn_closed,
                    n_sent, n_read, written, pc, panic_msg, startup, next_device,
                    settings_senders, graph_senders, update_holders, update_chan,
                    exec_pc, exec_settings, settings_chan, reply, inf_pc,
                    inf_graph, graph_chan, req_chan, batch, col_pc, shards,
                    cmd_pc, cmd_idx, cmd_val, last_settings, last_graph >>

\* --------------------------------------------------------------- Commander
\* The thread ends: the settings senders, the graph senders and update_sender
\* it was handed are dropped.
CommanderEnds ==
    /\ cmd_pc' = "done"
    /\ settings_senders' = << >>
    /\ graph_senders' = << >>
    /\ update_orig' = update_orig \ { "commander" }

\* Read one command; a closed connection ends the thread.
Cmd_Read ==
    /\ cmd_pc = "read"
    /\ IF conn # << >>
       THEN /\ conn' = Tail(conn)
            /\ n_read' = n_read + 1
            /\ cmd_val' = Head(conn).value
            /\ cmd_idx' = 1
            /\ cmd_pc' = CASE Head(conn).kind = "NewSettings" -> "send_settings"
                           [] Head(conn).kind = "NewNetwork" -> "send_graph"
                           [] OTHER -> "send_done"
            /\ UNCHANGED << settings_senders, graph_senders, update_orig >>
       ELSE /\ conn_closed
            /\ CommanderEnds
            /\ UNCHANGED << conn, n_read, cmd_val, cmd_idx >>
    /\ UNCHANGED << config, selfuni, tui, encoder, sims_left, dispatched, collector,
                    commands_left, panics_left, conn_closed, n_sent,
                    written, pc, panic_msg, startup, next_device, update_holders,
                    update_chan, exec_pc, exec_settings, settings_chan, reply,
                    inf_pc, inf_graph, graph_chan, req_chan, batch, col_pc,
                    shards, last_settings, last_graph >>

\* A send on a settings channel, of capacity 1 with last-write-wins
\* semantics: the value replaces the pending one, if any.
SettingsSend_queue(q, v) == Append(q, v)

SettingsSend(q, v) == << v >>

\* NewSettings: send the value on the next Executor's settings channel
\* (capacity 1, last write wins); a dropped receiver ends the thread.
Cmd_SendSettings ==
    /\ cmd_pc = "send_settings"
    /\ LET e == settings_senders[cmd_idx] IN
       IF Terminated(e)
       THEN /\ CommanderEnds
            /\ UNCHANGED << settings_chan, cmd_idx, last_settings >>
       ELSE /\ settings_chan' = [ settings_chan EXCEPT ![e] = SettingsSend(@, cmd_val) ]
            /\ IF cmd_idx = Len(settings_senders)
               THEN cmd_pc' = "read" /\ last_settings' = cmd_val
               ELSE cmd_pc' = cmd_pc /\ last_settings' = last_settings
            /\ cmd_idx' = cmd_idx + 1
            /\ UNCHANGED << settings_senders, graph_senders, update_orig >>
    /\ UNCHANGED << config, selfuni, tui, encoder, sims_left, dispatched, collector,
                    commands_left, panics_left, conn, conn_closed,
                    n_sent, n_read, written, pc, panic_msg, startup, next_device,
                    update_holders, update_chan, exec_pc, exec_settings, reply,
                    inf_pc, inf_graph, graph_chan, req_chan, batch, col_pc,
                    shards, cmd_val, last_graph >>

\* NewNetwork: the graph was loaded once; send it on the next Inference
\* thread's graph channel (capacity 1); a dropped receiver ends the thread.
Cmd_SendGraph ==
    /\ cmd_pc = "send_graph"
    /\ LET d == graph_senders[cmd_idx] IN
       IF inf_pc[d] = "done"
       THEN /\ CommanderEnds
            /\ UNCHANGED << graph_chan, cmd_idx, last_graph >>
       ELSE /\ graph_chan[d] = << >>
            /\ graph_chan' = [ graph_chan EXCEPT ![d] = << cmd_val >> ]
            /\ IF cmd_idx = Len(graph_senders)
               THEN cmd_pc' = "read" /\ last_graph' = cmd_val
               ELSE cmd_pc' = cmd_pc /\ last_graph' = last_graph
            /\ cmd_idx' = cmd_idx + 1
            /\ UNCHANGED << settings_senders, graph_senders, update_orig >>
    /\ UNCHANGED << config, selfuni, tui, encoder, sims_left, dispatched, collector,
                    commands_left, panics_left, conn, conn_closed,
                    n_sent, n_read, written, pc, panic_msg, startup, next_device,
                    update_holders, update_chan, exec_pc, exec_settings,
                    settings_chan, reply, inf_pc, inf_graph, req_chan, batch,
                    col_pc, shards, cmd_val, last_settings >>

\* Stop: tell the Collector, then end, dropping every sender.
Cmd_Stop ==
    /\ cmd_pc = "send_done"
    /\ IF col_pc = "done"
       THEN UNCHANGED update_chan
       ELSE /\ Len(update_chan) < UpdateCapacity(startup, devices)
            /\ update_chan' = Append(update_chan, "Done")
    /\ CommanderEnds
    /\ UNCHANGED << config, selfuni, tui, encoder, sims_left, dispatched, collector,
                    commands_left, panics_left, conn, conn_closed,
                    n_sent, n_read, written, pc, panic_msg, startup, next_device,
                    update_holders, exec_pc, exec_settings, settings_chan, reply,
                    inf_pc, inf_graph, graph_chan, req_chan, batch, col_pc,
                    shards, cmd_idx, cmd_val, last_settings, last_graph >>

\* ------------------------------------------------------------------ client
ServerRunning == pc \notin { "returned", "panicked" }

\* The controller sends one more command; NewSettings and NewNetwork carry a
\* fresh version number.
Client_Send ==
    /\ ServerRunning
    /\ ~conn_closed
    /\ commands_left > 0
    /\ commands_left' = commands_left - 1
    /\ \E kind \in { "NewSettings", "NewNetwork", "Stop" } :
          conn' = Append(conn, Command(kind, NoStartup, n_sent + 1))
    /\ n_sent' = n_sent + 1
    /\ UNCHANGED << config, selfuni, tui, encoder, sims_left, dispatched, collector,
                    panics_left, conn_closed, n_read,
                    written, pc, panic_msg, startup, next_device,
                    settings_senders, graph_senders, update_orig, update_holders,
                    update_chan, exec_pc, exec_settings, settings_chan, reply,
                    inf_pc, inf_graph, graph_chan, req_chan, batch, col_pc,
                    shards, cmd_pc, cmd_idx, cmd_val, last_settings, last_graph >>

\* The controller closes the control connection.
Client_Close ==
    /\ ServerRunning
    /\ ~conn_closed
    /\ conn_closed' = TRUE
    /\ UNCHANGED << config, selfuni, tui, encoder, sims_left, dispatched, collector,
                    commands_left, panics_left, conn, n_sent, n_read,
                    written, pc, panic_msg, startup, next_device,
                    settings_senders, graph_senders, update_orig, update_holders,
                    update_chan, exec_pc, exec_settings, settings_chan, reply,
                    inf_pc, inf_graph, graph_chan, req_chan, batch, col_pc,
                    shards, cmd_pc, cmd_idx, cmd_val, last_settings, last_graph >>

\* ------------------------------------------------------------------ selfuni
\* The board the generators play on (the Board trait of board_game): a heap
\* of tokens; a move takes one token or two; the game is done when the heap is
\* empty.
is_done(board) == board = 0

available_moves(board) == [ i \in 1 .. Min(2, board) |-> i ]

play(board, mv) == board - mv

\* The start position of the game chosen on the command line.
StartPos(a) == a.start

\* A policy entry, the fraction num / den.
Weight(num, den) == [ num |-> num, den |-> den ]

\* uniform_policy(n): n entries of 1/n.
uniform_policy(n) == [ i \in 1 .. n |-> Weight(1, n) ]

\* solve_all_moves(&board, solver_depth).best_move: None (the empty sequence),
\* or Some(the best moves), a non-empty set of available moves; a search of
\* depth 0 finds none.
solve_all_moves(board, depth) ==
    { << >> } \cup
    ( IF depth = 0 THEN { }
      ELSE { << moves >> : moves \in SUBSET Range(available_moves(board)) \ { { } } } )

\* The policy of the solver branch:
\* moves.contains(&mv) as u8 as f32 / moves.len() as f32, move by move.
solver_policy_per_available(board, moves) ==
    [ i \in DOMAIN available_moves(board) |->
        Weight(IF available_moves(board)[i] \in moves THEN 1 ELSE 0,
               Len(available_moves(board))) ]

solver_policy(board, moves) ==
    [ i \in DOMAIN available_moves(board) |->
        Weight(IF available_moves(board)[i] \in moves THEN 1 ELSE 0,
               Cardinality(moves)) ]

\* Position { board: board.clone(), is_full_search: true, played_mv: mv,
\* zero_visits: 0, zero_evaluation, net_evaluation }, built before the move is
\* played; only the policy of an evaluation is kept.
Position_after_play(board, mv, zero_eval, net_eval) ==
    [ board |-> play(board, mv), is_full_search |-> TRUE, played_mv |-> mv,
      zero_visits |-> 0, zero_evaluation |-> [ policy |-> zero_eval ],
      net_evaluation |-> [ policy |-> net_eval ] ]

Position(board, mv, zero_eval, net_eval) ==
    [ board |-> board, is_full_search |-> TRUE, played_mv |-> mv,
      zero_visits |-> 0, zero_evaluation |-> [ policy |-> zero_eval ],
      net_evaluation |-> [ policy |-> net_eval ] ]

Simulation(positions, final_board) ==
    [ positions |-> positions, final_board |-> final_board ]

\* flume::bounded(2 * thread_count)
SimCapacity(a) == 2 * a.thread_count

Generators == DOMAIN gen_pc

selfuni_server == << devices, feature_muzero, first_command, conn, conn_closed,
                    n_sent, commands_left, panics_left, n_read, written, pc,
                    panic_msg, startup, next_device, settings_senders,
                    graph_senders, update_orig, update_holders, update_chan,
                    exec_pc, exec_settings, settings_chan, reply, inf_pc,
                    inf_graph, graph_chan, req_chan, batch, col_pc, shards,
                    cmd_pc, cmd_idx, cmd_val, last_settings, last_graph,
                    sims_left, dispatched, shard_log, curr_gen, curr_games >>

\* The loop over 0..max_game_length in main_generator has ended: every turn
\* was taken, or the board is done (the break).
GameOver_done_only(t) == is_done(gen_board[t])

GameOver(t) ==
    Len(gen_positions[t]) >= args.max_game_length \/ is_done(gen_board[t])

\* One turn of the loop over 0..max_game_length in main_generator: evaluate
\* the board, pick a move, record the position, play the move.
G_Move(t) ==
    /\ gen_pc[t] = "play"
    /\ ~GameOver(t)
    /\ LET board == gen_board[t]
           net_eval == uniform_policy(Len(available_moves(board)))
       IN \E solution \in solve_all_moves(board, args.solver_depth) :
          \E mv \in ( IF solution # << >> THEN solution[1]
                      ELSE Range(available_moves(board)) ) :
             LET zero_eval == IF solution # << >>
                              THEN solver_policy(board, solution[1])
                              ELSE net_eval
             IN /\ gen_positions' = [ gen_positions EXCEPT ![t] =
                                        Append(@, Position(board, mv, zero_eval, net_eval)) ]
                /\ gen_board' = [ gen_board EXCEPT ![t] = play(board, mv) ]
    /\ UNCHANGED << selfuni_server, tui, encoder, args, gen_pc, sim_chan, receiver_open,
                    games_received, mc_pc, sim_tags, sims_sent, output,
                    finish_calls >>

\* The game is over or max_game_length moves were played: send the Simulation
\* (blocking while the channel is full) and start the next game; a dropped
\* receiver ends the generator.
G_Send(t) ==
    /\ gen_pc[t] = "play"
    /\ GameOver(t)
    /\ IF ~receiver_open
       THEN /\ gen_pc' = [ gen_pc EXCEPT ![t] = "done" ]
            /\ UNCHANGED << sim_chan, gen_board, gen_positions, sim_tags, sims_sent >>
       ELSE /\ Len(sim_chan) < SimCapacity(args)
            /\ sim_chan' = Append(sim_chan, Simulation(gen_positions[t], gen_board[t]))
            /\ sim_tags' = Append(sim_tags, sims_sent + 1)
            /\ sims_sent' = sims_sent + 1
            /\ gen_board' = [ gen_board EXCEPT ![t] = StartPos(args) ]
            /\ gen_positions' = [ gen_positions EXCEPT ![t] = << >> ]
            /\ UNCHANGED gen_pc
    /\ UNCHANGED << selfuni_server, tui, encoder, args, receiver_open, games_received, mc_pc,
                    output, finish_calls >>

\* receiver.recv() takes the oldest Simulation out of the channel.
AfterRecv_peek(chan) == chan

AfterRecv(chan) == Tail(chan)

\* drop(receiver) at the end of main_collector: the channel is disconnected.
ReceiverAfterDrop_kept == TRUE

ReceiverAfterDrop == FALSE

\* main_collector: receive and append game_count simulations.
MC_Receive ==
    /\ mc_pc = "collect"
    /\ games_received < args.game_count
    /\ sim_chan # << >>
    /\ sim_chan' = AfterRecv(sim_chan)
    /\ sim_tags' = AfterRecv(sim_tags)
    /\ output' = Append(output, Head(sim_tags))
    /\ games_received' = games_received + 1
    /\ UNCHANGED << selfuni_server, tui, encoder, args, gen_pc, gen_board, gen_positions,
                    receiver_open, mc_pc, sims_sent, finish_calls >>

\* main_collector after its loop: finish the output and drop the receiver.
MC_Finish ==
    /\ mc_pc = "collect"
    /\ games_received = args.game_count
    /\ finish_calls' = finish_calls + 1
    /\ receiver_open' = ReceiverAfterDrop
    /\ sim_chan' = IF ReceiverAfterDrop THEN sim_chan ELSE << >>
    /\ sim_tags' = IF ReceiverAfterDrop THEN sim_tags ELSE << >>
    /\ mc_pc' = "join"
    /\ UNCHANGED << selfuni_server, tui, encoder, args, gen_pc, gen_board, gen_positions,
                    games_received, sims_sent, output >>

\* main_impl: the scope returns once every generator has ended.
MC_Join ==
    /\ mc_pc = "join"
    /\ \A t \in Generators : gen_pc[t] = "done"
    /\ mc_pc' = "done"
    /\ UNCHANGED << selfuni_server, tui, encoder, args, gen_pc, gen_board, gen_positions,
                    sim_chan, receiver_open, games_received, sim_tags, sims_sent,
                    output, finish_calls >>

\* selfuni is not running.
NoArgs == [ start |-> 0, game_count |-> 0, max_game_length |-> 0,
            solver_depth |-> 0, thread_count |-> 1 ]

SelfuniIdle ==
    /\ args = NoArgs
    /\ gen_pc = << >>
    /\ gen_board = << >>
    /\ gen_positions = << >>
    /\ sim_chan = << >>
    /\ receiver_open = FALSE
    /\ games_received = 0
    /\ mc_pc = "idle"
    /\ sim_tags = << >>
    /\ sims_sent = 0
    /\ output = << >>
    /\ finish_calls = 0

\* ------------------------------------------------------------------ kz-tui
\* The tree viewer (rust/kz-tui/src/main.rs).  The search tree and its
\* gather and apply steps live in kz-core (kz_core::zero), which is not part
\* of the sources at hand; they are modelled from the specification (the
\* Search Tree of section 3 and gather/apply of section 4.2): a tree of nodes
\* keyed by node index that only grows.  The board is the heap game of the
\* selfuni section.
HEADER_SIZE == 2

OFFSET_MARGIN == 3

Max(a, b) == IF a >= b THEN a ELSE b

\* Option: None, or Some(x), whose value is Some(x)[1].
None == << >>

Some(x) == << x >>

\* Rect::default(): the empty area.
RectDefault == [ x |-> 0, y |-> 0, width |-> 0, height |-> 0 ]

\* f.size().inner(&Margin { horizontal: 2, vertical: 2 }): the frame without
\* its margin, or the empty area when the frame is smaller than the margin.
Inner(size) ==
    IF size.width < 2 * 2 \/ size.height < 2 * 2
    THEN RectDefault
    ELSE [ x |-> 2, y |-> 2, width |-> size.width - 2 * 2,
           height |-> size.height - 2 * 2 ]

\* A terminal smaller than the margin: its inner area is Rect::default(); the
\* next size up has an inner area of no rows and no columns.
MinTerm == 3

\* The terminal sizes of the bounds.
TermSizes ==
    [ width : MinTerm .. MaxTermWidth, height : MinTerm .. MaxTermHeight ]

\* A node of the Search Tree: the parent and the move that led here (None at
\* the root), the index range of the children (None until a gather visits
\* the node) and whether the net evaluation has been applied.
Node(parent, last_move) ==
    [ parent |-> parent, last_move |-> last_move, children |-> None,
      evaluated |-> FALSE ]

\* Tree::new(board): the root alone.
NewTree(board) ==
    [ root_board |-> board, nodes |-> [ n \in { 0 } |-> Node(None, None) ] ]

TreeLen(t) == Cardinality(DOMAIN t.nodes)

\* The node indices of an IdxRange (start inclusive, end exclusive).
Children(t, n) ==
    IF t.nodes[n].children = None THEN { }
    ELSE t.nodes[n].children[1][1] .. t.nodes[n].children[1][2] - 1

\* The board of node n: the moves of the path from the root played on the
\* root board, as the walk of gather plays them.
RECURSIVE PathBoard(_, _)
PathBoard(t, n) ==
    IF t.nodes[n].parent = None THEN t.root_board
    ELSE play(PathBoard(t, t.nodes[n].parent[1]), t.nodes[n].last_move[1])

\* gather has reached node n, which has no children yet: one child per
\* available move is pushed at the end of the tree.
PushChildren(t, n) ==
    LET moves == available_moves(PathBoard(t, n))
        start == TreeLen(t)
    IN [ t EXCEPT !.nodes =
           [ i \in 0 .. start + Len(moves) - 1 |->
               IF i >= start THEN Node(Some(n), Some(moves[i - start + 1]))
               ELSE IF i = n
               THEN [ t.nodes[n] EXCEPT !.children =
                                              Some(<< start, start + Len(moves) >>) ]
               ELSE t.nodes[i] ] ]

\* zero_step_gather: the walk from the root ends at a node without children
\* (which child the walk takes at each node is left open).  On a done board
\* the visit completes and there is no request; otherwise the children are
\* pushed and the node is requested.
zero_step_gather(t) ==
    { IF is_done(PathBoard(t, n))
      THEN [ tree |-> t, request |-> None ]
      ELSE [ tree |-> PushChildren(t, n),
             request |-> Some([ node |-> n, board |-> PathBoard(t, n) ]) ] :
        n \in { m \in DOMAIN t.nodes : t.nodes[m].children = None } }

\* zero_step_apply(&mut tree, request.respond(eval)): the evaluation is
\* folded into the requested node.
zero_step_apply(t, request) ==
    [ t EXCEPT !.nodes[request.node].evaluated = TRUE ]

\* Every request of the queue applied, oldest first.
RECURSIVE ApplyAll(_, _)
ApplyAll(t, reqs) ==
    IF reqs = << >> THEN t
    ELSE ApplyAll(zero_step_apply(t, Head(reqs)), Tail(reqs))

\* Tree::best_child(node): a child of the node, None when it has none.
best_child(t, n) ==
    IF t.nodes[n].children = None THEN { None }
    ELSE { Some(c) : c \in Children(t, n) }

\* State::node_board(node) on the cache c: the memoized board, or the
\* parent's board with last_move played (the root board at the root), which
\* is then inserted; ok is false when the insert finds an entry
\* (assert!(prev.is_none())).
NodeBoardStep_no_play(board, mv) == board

NodeBoardStep(board, mv) == play(board, mv)

RECURSIVE node_board(_, _, _)
node_board(c, t, node) ==
    IF node \in DOMAIN c THEN [ cache |-> c, board |-> c[node], ok |-> TRUE ]
    ELSE LET up == IF t.nodes[node].parent = None
                   THEN [ cache |-> c, board |-> t.root_board, ok |-> TRUE ]
                   ELSE LET r == node_board(c, t, t.nodes[node].parent[1])
                        IN [ r EXCEPT !.board =
                               NodeBoardStep(r.board, t.nodes[node].last_move[1]) ]
         IN [ cache |-> [ n \in DOMAIN up.cache \cup { node } |->
                            IF n = node THEN up.board ELSE up.cache[n] ],
              board |-> up.board,
              ok |-> up.ok /\ node \notin DOMAIN up.cache ]

\* State::column_values(node, depth): the board of the node and, for a node
\* with a parent, the board of the parent are looked up.
column_values(c, t, node) ==
    LET r == node_board(c, t, node)
    IN IF t.nodes[node].parent = None THEN r
       ELSE LET p == node_board(r.cache, t, t.nodes[node].parent[1])
            IN [ p EXCEPT !.ok = r.ok /\ p.ok ]

\* Widget::render: compute_col_starts calls column_values for every row of
\* prev_nodes (the rows of the window are then cache hits).
RECURSIVE render(_, _, _)
render(c, t, rows) ==
    IF rows = << >> THEN [ cache |-> c, ok |-> TRUE ]
    ELSE LET r == column_values(c, t, Head(rows).node)
             rest == render(r.cache, t, Tail(rows))
         IN [ cache |-> rest.cache, ok |-> r.ok /\ rest.ok ]

\* RenderNode { node, depth }
RenderNode(node, depth) == [ node |-> node, depth |-> depth ]

\* State::append_nodes(curr, depth, result): the node, then (when it is
\* expanded) the rows of its children; the children are sorted by visits
\* and net policy, numbers of the search that are not modelled, so every
\* order of the children is possible.
RECURSIVE append_nodes(_, _, _, _)
RECURSIVE ChildRows(_, _, _, _)
append_nodes(t, expanded, curr, depth) ==
    IF curr \in expanded /\ t.nodes[curr].children # None
    THEN { << RenderNode(curr, depth) >> \o rest :
             rest \in ChildRows(t, expanded, Children(t, curr), depth + 1) }
    ELSE { << RenderNode(curr, depth) >> }

ChildRows(t, expanded, cs, depth) ==
    IF cs = { } THEN { << >> }
    ELSE UNION { { a \o b : a \in append_nodes(t, expanded, c, depth),
                            b \in ChildRows(t, expanded, cs \ { c }, depth) } :
                 c \in cs }

\* State::selected_index() before the unwrap: the (0-based) position of the
\* selected node in prev_nodes, None when it is not there.
position(rows, node) ==
    IF \E i \in DOMAIN rows : rows[i].node = node
    THEN Some(( CHOOSE i \in DOMAIN rows :
                  /\ rows[i].node = node
                  /\ \A j \in DOMAIN rows : rows[j].node = node => i <= j ) - 1)
    ELSE None

\* prev_nodes.get(i): the row of 0-based index i, None outside the list.
Get(rows, i) == IF i >= 0 /\ i < Len(rows) THEN Some(rows[i + 1]) ELSE None

\* i32::clamp(min, max) on a value; the caller has checked min <= max.
Clamp(v, lo, hi) == IF v < lo THEN lo ELSE IF v > hi THEN hi ELSE v

\* min(OFFSET_MARGIN, ((area.height - 1) / 2) as usize)
Margin_none(area) == 0

Margin(area) == Min(OFFSET_MARGIN, (area.height - 1) \div 2)

\* The bounds of the clamp in prepare_render.
ClampLower(area, selected) ==
    selected - (area.height - HEADER_SIZE) + Margin(area)

ClampUpper(area, selected) == Max(selected - Margin(area), 0)

\* The failures of a step of the event loop.
ErrSelectedIndex == "selected_index: unwrap on None"
ErrClamp == "clamp: min > max"
ErrOffset == "offset < 0"
ErrUnderflow == "attempt to subtract with overflow"
ErrPrevIsNone == "assertion failed: prev.is_none()"
ErrRequestsEmpty == "assertion failed: requests.is_empty()"

\* State::prepare_render(area) with the rows that append_nodes collected:
\* the new view_offset, or the failure.
prepare_render(area, rows, sel_node, offset0) ==
    LET index == position(rows, sel_node)
        selected == index[1]
    IN IF index = None THEN [ err |-> ErrSelectedIndex, offset |-> offset0 ]
       ELSE IF ClampLower(area, selected) > ClampUpper(area, selected)
       THEN [ err |-> ErrClamp, offset |-> offset0 ]
       ELSE LET offset == Clamp(offset0, ClampLower(area, selected),
                                ClampUpper(area, selected))
            IN IF offset < 0 THEN [ err |-> ErrOffset, offset |-> offset0 ]
               ELSE [ err |-> "", offset |-> offset ]

\* Everything but the viewer.
not_tui == << selfuni_server, selfuni, encoder >>

\* What one terminal.draw of the event loop can come to on the area: the
\* draw is skipped on an empty area; otherwise prepare_render and render run
\* for some order of the rows.  area.height - HEADER_SIZE is a u16
\* subtraction: below zero it fails in a build with overflow checks and
\* wraps in one without.
RenderOutcomes(area, rows) ==
    LET p == prepare_render(area, rows, selected_node, view_offset)
        r == render(board_cache, tree, rows)
        failed(msg, offset, cache) ==
            [ pc |-> "panicked", panic |-> msg, prev_nodes |-> rows,
              view_offset |-> offset, board_cache |-> cache ]
        drawn == [ pc |-> "event", panic |-> "", prev_nodes |-> rows,
                   view_offset |-> p.offset, board_cache |-> r.cache ]
    IN IF p.err # "" THEN { failed(p.err, view_offset, board_cache) }
       ELSE IF ~r.ok THEN { failed(ErrPrevIsNone, p.offset, r.cache) }
       ELSE IF area.height < HEADER_SIZE
       THEN { failed(ErrUnderflow, p.offset, r.cache), drawn }
       ELSE { drawn }

DrawOutcomes(area) ==
    IF area.width * area.height > 0
    THEN UNION { RenderOutcomes(area, rows) :
                   rows \in append_nodes(tree, expanded_nodes, 0, 0) }
    ELSE { [ pc |-> "event", panic |-> "", prev_nodes |-> prev_nodes,
             view_offset |-> view_offset, board_cache |-> board_cache ] }

\* terminal.draw(..) at the top of the event loop, on a terminal of one of
\* the sizes.
DrawOn(sizes) ==
    /\ tui_pc = "draw"
    /\ \E size \in sizes : \E o \in DrawOutcomes(Inner(size)) :
          /\ tui_pc' = o.pc
          /\ tui_panic' = o.panic
          /\ prev_nodes' = o.prev_nodes
          /\ view_offset' = o.view_offset
          /\ board_cache' = o.board_cache
          /\ prev_area' = IF o.pc = "event" THEN Some(Inner(size)) ELSE prev_area
    /\ UNCHANGED << not_tui, tree, requests, expanded_nodes, selected_node,
                    gathered, applied >>

Draw == DrawOn(TermSizes)

\* The node of each request of a queue.
RequestNodes(reqs) == [ i \in DOMAIN reqs |-> reqs[i].node ]

\* State::gather_step(&mut requests) on tree t and queue reqs: the request
\* of the gather, if there is one, is pushed at the back.
gather_step(t, reqs) ==
    { [ tree |-> g.tree,
        requests |-> IF g.request = None THEN reqs
                     ELSE Append(reqs, g.request[1]) ] :
        g \in zero_step_gather(t) }

\* The 'q' key: the loop is left.
KeyQ ==
    /\ tui_pc = "event"
    /\ tui_pc' = "quit"
    /\ UNCHANGED << not_tui, tree, requests, board_cache, prev_nodes,
                    expanded_nodes, selected_node, view_offset, prev_area,
                    tui_panic, gathered, applied >>

\* After the loop: the terminal is restored and main_impl returns; the
\* requests still queued are dropped.
Restore ==
    /\ tui_pc = "quit"
    /\ tui_pc' = "exited"
    /\ requests' = << >>
    /\ UNCHANGED << not_tui, tree, board_cache, prev_nodes, expanded_nodes,
                    selected_node, view_offset, prev_area, tui_panic, gathered,
                    applied >>

\* The 'g' key: one gather step.
KeyG ==
    /\ tui_pc = "event"
    /\ \E g \in gather_step(tree, requests) :
          /\ tree' = g.tree
          /\ requests' = g.requests
          /\ gathered' = gathered \o RequestNodes(Drop(g.requests, Len(requests)))
    /\ tui_pc' = "draw"
    /\ UNCHANGED << not_tui, board_cache, prev_nodes, expanded_nodes,
                    selected_node, view_offset, prev_area, tui_panic, applied >>

\* requests.pop_front() on a queue that is not empty: the oldest request.
pop_front_newest(reqs) == reqs[Len(reqs)]

pop_front(reqs) == Head(reqs)

\* The 'a' key: the oldest request, if there is one, is applied.
KeyA ==
    /\ tui_pc = "event"
    /\ IF requests # << >>
       THEN /\ tree' = zero_step_apply(tree, pop_front(requests))
            /\ requests' = Tail(requests)
            /\ applied' = Append(applied, pop_front(requests).node)
       ELSE UNCHANGED << tree, requests, applied >>
    /\ tui_pc' = "draw"
    /\ UNCHANGED << not_tui, board_cache, prev_nodes, expanded_nodes,
                    selected_node, view_offset, prev_area, tui_panic, gathered >>

\* The requests that the loop "while let Some(request) = requests.pop_front()"
\* takes out of the queue: all of them.
Drained_none(reqs) == << >>

Drained(reqs) == reqs

\* The 's' key: every outstanding request is applied; then, with ALT, one
\* call of expand_tree (a gather whose request is applied at once, outside
\* the queue), and without ALT one gather step, one apply and
\* assert!(requests.is_empty()).
KeyS(alt) ==
    /\ tui_pc = "event"
    /\ LET drained == Drained(requests)
           t1 == ApplyAll(tree, drained)
           q1 == Drop(requests, Len(drained))
       IN /\ IF alt
             THEN /\ \E g \in zero_step_gather(t1) :
                        tree' = IF g.request = None THEN g.tree
                                ELSE zero_step_apply(g.tree, g.request[1])
                  /\ requests' = q1
                  /\ applied' = applied \o RequestNodes(drained)
                  /\ UNCHANGED << gathered, tui_panic >>
                  /\ tui_pc' = "draw"
             ELSE \E g \in gather_step(t1, q1) :
                     LET popped == Take(g.requests, 1)
                         q2 == Drop(g.requests, 1)
                     IN /\ tree' = ApplyAll(g.tree, popped)
                        /\ requests' = q2
                        /\ gathered' = gathered
                                         \o RequestNodes(Drop(g.requests, Len(q1)))
                        /\ applied' = applied \o RequestNodes(drained)
                                        \o RequestNodes(popped)
                        /\ IF q2 = << >>
                           THEN tui_pc' = "draw" /\ UNCHANGED tui_panic
                           ELSE tui_pc' = "panicked" /\ tui_panic' = ErrRequestsEmpty
    /\ UNCHANGED << not_tui, board_cache, prev_nodes, expanded_nodes,
                    selected_node, view_offset, prev_area >>

\* handle_event, KeyCode::Up: the row above the selected one is selected.
KeyUp ==
    /\ tui_pc = "event"
    /\ LET index == position(prev_nodes, selected_node)
       IN IF index = None
          THEN /\ tui_pc' = "panicked"
               /\ tui_panic' = ErrSelectedIndex
               /\ UNCHANGED selected_node
          ELSE /\ selected_node' = IF index[1] # 0
                                   THEN Get(prev_nodes, index[1] - 1)[1].node
                                   ELSE selected_node
               /\ tui_pc' = "draw"
               /\ UNCHANGED tui_panic
    /\ UNCHANGED << not_tui, tree, requests, board_cache, prev_nodes,
                    expanded_nodes, view_offset, prev_area, gathered, applied >>

\* handle_event, KeyCode::Down: the row below the selected one, if any.
KeyDown ==
    /\ tui_pc = "event"
    /\ LET index == position(prev_nodes, selected_node)
       IN IF index = None
          THEN /\ tui_pc' = "panicked"
               /\ tui_panic' = ErrSelectedIndex
               /\ UNCHANGED selected_node
          ELSE /\ selected_node' = IF Get(prev_nodes, index[1] + 1) = None
                                   THEN selected_node
                                   ELSE Get(prev_nodes, index[1] + 1)[1].node
               /\ tui_pc' = "draw"
               /\ UNCHANGED tui_panic
    /\ UNCHANGED << not_tui, tree, requests, board_cache, prev_nodes,
                    expanded_nodes, view_offset, prev_area, gathered, applied >>

\* handle_event, KeyCode::Right: expand the selected node; if it is expanded
\* already, select its best child and expand that.
KeyRight ==
    /\ tui_pc = "event"
    /\ IF selected_node \notin expanded_nodes
       THEN /\ expanded_nodes' = expanded_nodes \cup { selected_node }
            /\ UNCHANGED selected_node
       ELSE \E child \in best_child(tree, selected_node) :
               IF child = None
               THEN UNCHANGED << selected_node, expanded_nodes >>
               ELSE /\ selected_node' = child[1]
                    /\ expanded_nodes' = expanded_nodes \cup { child[1] }
    /\ tui_pc' = "draw"
    /\ UNCHANGED << not_tui, tree, requests, board_cache, prev_nodes,
                    view_offset, prev_area, tui_panic, gathered, applied >>

\* handle_event, KeyCode::Left: collapse the selected node; if it is
\* collapsed already, select its parent and collapse that.
KeyLeft ==
    /\ tui_pc = "event"
    /\ IF selected_node \in expanded_nodes
       THEN /\ expanded_nodes' = expanded_nodes \ { selected_node }
            /\ UNCHANGED selected_node
       ELSE IF tree.nodes[selected_node].parent = None
       THEN UNCHANGED << selected_node, expanded_nodes >>
       ELSE /\ selected_node' = tree.nodes[selected_node].parent[1]
            /\ expanded_nodes' = expanded_nodes \ { tree.nodes[selected_node].parent[1] }
    /\ tui_pc' = "draw"
    /\ UNCHANGED << not_tui, tree, requests, board_cache, prev_nodes,
                    view_offset, prev_area, tui_panic, gathered, applied >>

\* handle_event, the left mouse button released on a row of the terminal:
\* the node drawn there, if any, is selected.
MouseUp(row) ==
    /\ tui_pc = "event"
    /\ LET i == row + view_offset - prev_area[1].y - HEADER_SIZE
       IN selected_node' = IF i >= 0 /\ Get(prev_nodes, i) # None
                           THEN Get(prev_nodes, i)[1].node
                           ELSE selected_node
    /\ tui_pc' = "draw"
    /\ UNCHANGED << not_tui, tree, requests, board_cache, prev_nodes,
                    expanded_nodes, view_offset, prev_area, tui_panic, gathered,
                    applied >>

\* Any other event (a resize, another key, a key release): nothing changes
\* and the loop draws again.
OtherEvent ==
    /\ tui_pc = "event"
    /\ tui_pc' = "draw"
    /\ UNCHANGED << not_tui, tree, requests, board_cache, prev_nodes,
                    expanded_nodes, selected_node, view_offset, prev_area,
                    tui_panic, gathered, applied >>

\* The viewer is not running.
TuiIdle ==
    /\ tree = NewTree(0)
    /\ requests = << >>
    /\ board_cache = << >>
    /\ prev_nodes = << >>
    /\ expanded_nodes = { }
    /\ selected_node = 0
    /\ view_offset = 0
    /\ prev_area = None
    /\ tui_pc = "idle"
    /\ tui_panic = ""
    /\ gathered = << >>
    /\ applied = << >>

\* ---------------------------------------------------------------- trictrac
\* TrictracStdMapper (rust/kz-core/src/mapping/trictrac.rs).  The board is
\* the game state of the trictrac_store crate: 24 fields with a number of
\* checkers of one color each, two players, the dice and the turn stage.
Colors == { "White", "Black" }

Fields == 1 .. 24

\* The range 0..15 of nb_checkers.
CheckerCounts_inclusive == 0 .. 15

CheckerCounts == 0 .. 14

\* input_bool_shape(): [2 * 15, 24, 1]
input_bool_shape == << 2 * 15, 24, 1 >>

\* input_scalar_count(): 1 + 2 + 2 + 2 * 5
input_scalar_count == 1 + 2 + 2 + 2 * 5

\* The concatenation of the sequences of a sequence.
RECURSIVE Flatten(_)
Flatten(seqs) ==
    IF seqs = << >> THEN << >> ELSE Head(seqs) \o Flatten(Tail(seqs))

\* The elements of a set of numbers in increasing order (a Rust range).
RECURSIVE Ascending(_)
Ascending(S) ==
    IF S = { } THEN << >>
    ELSE LET lo == CHOOSE x \in S : \A y \in S : x <= y
         IN << lo >> \o Ascending(S \ { lo })

\* who_plays() and the other player.
PovPlayer(gs) == gs.players[gs.active]

OppPlayer(gs) ==
    gs.players[CHOOSE c \in Colors : gs.players[c].color # PovPlayer(gs).color]

\* The loop over field in 1..25 for one player and one nb_checkers:
\* Some(&player.color) == color && nb_checkers == count.
FieldBits(gs, player, nb_checkers) ==
    LET fields == Ascending(Fields)
    IN [ i \in DOMAIN fields |->
           gs.board[fields[i]].color = Some(player.color)
             /\ nb_checkers = gs.board[fields[i]].count ]

\* The loop over nb_checkers in 0..15 for one player.
PlayerBits(gs, player) ==
    LET counts == Ascending(CheckerCounts)
    IN Flatten([ i \in DOMAIN counts |-> FieldBits(gs, player, counts[i]) ])

\* The booleans encode_input pushes: the pov player, then the opponent.
EncodedBools(gs) ==
    PlayerBits(gs, PovPlayer(gs)) \o PlayerBits(gs, OppPlayer(gs))

\* bool as u8 as f32
Bit(b) == Weight(IF b THEN 1 ELSE 0, 1)

\* points, holes, can_bredouille, can_big_bredouille, dice_roll_count.
PlayerScalars(player) ==
    << Weight(player.points, 1), Weight(player.holes, 1),
       Bit(player.can_bredouille), Bit(player.can_big_bredouille),
       Weight(player.dice_roll_count, 1) >>

\* The scalars encode_input pushes: the turn stage, the active color (White,
\* Black), the dice over 6, the statistics of the two players.
EncodedScalars(gs) ==
    << Weight(gs.turn_stage, 1) >>
    \o << Bit(PovPlayer(gs).color = "White"), Bit(PovPlayer(gs).color = "Black") >>
    \o << Weight(gs.dice[1], 6), Weight(gs.dice[2], 6) >>
    \o PlayerScalars(PovPlayer(gs)) \o PlayerScalars(OppPlayer(gs))

\* encode_input(&self, bools, scalars, board)
encode_input ==
    /\ enc_pc = "call"
    /\ bools' = bools \o EncodedBools(game_state)
    /\ scalars' = scalars \o EncodedScalars(game_state)
    /\ enc_pc' = "returned"
    /\ UNCHANGED << selfuni_server, selfuni, tui, game_state >>

\* A player of the game state.
Player(color, points) ==
    [ color |-> color, points |-> points, holes |-> 0, can_bredouille |-> TRUE,
      can_big_bredouille |-> FALSE, dice_roll_count |-> points ]

\* The boards of the bounds: a stack of white checkers on field 1, a stack
\* of black checkers on field 24 (the other fields are empty), either color
\* to play, any dice and turn stage.
GameStates ==
    { [ board |-> [ f \in Fields |->
                      IF f = 1 /\ w > 0 THEN [ count |-> w, color |-> Some("White") ]
                      ELSE IF f = 24 /\ b > 0 THEN [ count |-> b, color |-> Some("Black") ]
                      ELSE [ count |-> 0, color |-> None ] ],
        players |-> [ c \in Colors |-> Player(c, IF c = "White" THEN w ELSE b) ],
        active |-> active, dice |-> << d1, d2 >>, turn_stage |-> stage ] :
        w \in 0 .. MaxStack, b \in 0 .. MaxStack, active \in Colors,
        d1 \in 1 .. MaxDie, d2 \in 1 .. MaxDie, stage \in 0 .. MaxTurnStage }

\* No encoder is running.
EncoderIdle ==
    /\ game_state = << >>
    /\ bools = << >>
    /\ scalars = << >>
    /\ enc_pc = "idle"

\* ----------------------------------------------------------- specification
\* The state at the first read of the control connection.  A run is the first
\* command the client sent and the number of devices; feats are the builds,
\* commands and panics bound what the client and the Executors may still do.
InitWith(runs, feats, commands, panics, sims) ==
    /\ \E run \in runs : first_command = run[1] /\ devices = run[2]
    /\ feature_muzero \in feats
    /\ conn = << first_command >>
    /\ conn_closed = FALSE
    /\ n_sent = 0
    /\ commands_left = commands
    /\ panics_left = panics
    /\ n_read = 0
    /\ written = { }
    /\ pc = "startup"
    /\ panic_msg = ""
    /\ startup = NoStartup
    /\ next_device = 1
    /\ settings_senders = << >>
    /\ graph_senders = << >>
    /\ update_orig = { }
    /\ update_holders = { }
    /\ update_chan = << >>
    /\ exec_pc = << >>
    /\ exec_settings = << >>
    /\ settings_chan = << >>
    /\ reply = << >>
    /\ inf_pc = << >>
    /\ inf_graph = << >>
    /\ graph_chan = << >>
    /\ req_chan = << >>
    /\ batch = << >>
    /\ col_pc = "unspawned"
    /\ shards = 0
    /\ cmd_pc = "unspawned"
    /\ cmd_idx = 1
    /\ cmd_val = 0
    /\ last_settings = 0
    /\ last_graph = 0
    /\ sims_left = sims
    /\ dispatched = << >>
    /\ shard_log = << >>
    /\ curr_gen = 0
    /\ curr_games = 0
    /\ SelfuniIdle
    /\ TuiIdle
    /\ EncoderIdle

\* AlphaZero on tic-tac-toe with the given thread count and GPU batch size.
PipelineStartup(cpu, gpu) ==
    Command("StartupSettings",
            StartupSettings("ttt", FALSE, "default", TRUE, TRUE, cpu, gpu, 1, 1), 0)

\* Runs of the pipeline: every device count, thread count and batch size of the
\* bounds with at most MaxExecutors Executors, and one command out of order.
PipelineRuns ==
    { << PipelineStartup(c[1], c[2]), c[3] >> :
        c \in { x \in (1 .. MaxCpuThreads) \X (1 .. MaxBatch) \X (1 .. MaxDevices) :
                  x[1] * x[3] <= MaxExecutors } }
    \cup { << Command("NewSettings", NoStartup, 0), 1 >> }

\* One device with more Executors than its request channel has places.
BackpressureRuns ==
    { << PipelineStartup(BackpressureThreads, 1), 1 >>,
      << Command("NewNetwork", NoStartup, 0), 1 >> }

\* Every first command of the bounds, on one device with one Executor.
StartupRuns ==
    { << Command("StartupSettings",
                 StartupSettings(game, muzero, start_pos, exists, absolute, 1,
                                 gpu, root, search), 0), 1 >> :
        game \in { "ttt", "ataxx", "trictrac", "go", "checkers" },
        muzero \in BOOLEAN, start_pos \in { "default", "random" },
        exists \in BOOLEAN, absolute \in BOOLEAN,
        gpu \in 0 .. MaxBatch, root \in 0 .. 1, search \in 0 .. MaxBatch }
    \cup { << Command(kind, NoStartup, 0), 1 >> :
             kind \in { "NewSettings", "NewNetwork", "Stop" } }

\* One device with several Executors, and one command out of order.
ShutdownRuns ==
    { << PipelineStartup(MaxCpuThreads, 1), 1 >>,
      << Command("Stop", NoStartup, 0), 1 >> }

Init == InitWith(PipelineRuns, { FALSE }, MaxCommands, MaxPanics, MaxSims)

InitStartup == InitWith(StartupRuns, BOOLEAN, MaxCommands, MaxPanics, MaxSims)

InitBackpressure == InitWith(BackpressureRuns, { FALSE }, MaxCommands, MaxPanics, MaxSims)

InitShutdown == InitWith(ShutdownRuns, { FALSE }, MaxCommands, MaxPanics, MaxSims)

Executor(e) ==
    \/ E_Poll(e)
    \/ E_GatherRequest(e)
    \/ E_MoveDone(e)
    \/ E_SendRequest(e)
    \/ E_Apply(e)
    \/ E_ReplyDropped(e)
    \/ E_SendSimulation(e)

Inference(d) == I_Poll(d) \/ I_Drain(d) \/ I_Respond(d)

Commander == Cmd_Read \/ Cmd_SendSettings \/ Cmd_SendGraph \/ Cmd_Stop

Main == selfplay_server_main \/ SpawnDevice \/ SpawnCollector \/ SpawnCommander \/ ScopeJoin

Next ==
    \/ Main
    \/ \E e \in Spawned : Executor(e) \/ E_Panic(e)
    \/ \E d \in DOMAIN inf_pc : Inference(d)
    \/ C_Receive
    \/ Commander
    \/ Client_Send
    \/ Client_Close

Spec == Init /\ [][Next]_vars

\* selfuni: every command line of the bounds.
ArgsSet ==
    [ start : 0 .. MaxHeap, game_count : 0 .. MaxGameCount,
      max_game_length : 0 .. MaxGameLength, solver_depth : 0 .. 1,
      thread_count : 1 .. MaxThreadCount ]

\* The server with no thread but, perhaps, the Collector: the main thread at
\* main, the StartupSettings s, the Collector at col, senders of the update
\* channel held by holders, and updates still to be sent.
ServerAt(main, s, col, holders, updates) ==
    /\ devices = 1
    /\ feature_muzero = FALSE
    /\ first_command = Command("StartupSettings", s, 0)
    /\ conn = << >>
    /\ conn_closed = TRUE
    /\ n_sent = 0
    /\ commands_left = 0
    /\ panics_left = 0
    /\ n_read = 0
    /\ written = { }
    /\ pc = main
    /\ panic_msg = ""
    /\ startup = s
    /\ next_device = 1
    /\ settings_senders = << >>
    /\ graph_senders = << >>
    /\ update_orig = holders
    /\ update_holders = { }
    /\ update_chan = << >>
    /\ exec_pc = << >>
    /\ exec_settings = << >>
    /\ settings_chan = << >>
    /\ reply = << >>
    /\ inf_pc = << >>
    /\ inf_graph = << >>
    /\ graph_chan = << >>
    /\ req_chan = << >>
    /\ batch = << >>
    /\ col_pc = col
    /\ shards = IF col = "unspawned" THEN 0 ELSE 1
    /\ cmd_pc = "unspawned"
    /\ cmd_idx = 1
    /\ cmd_val = 0
    /\ last_settings = 0
    /\ last_graph = 0
    /\ sims_left = updates
    /\ dispatched = << >>
    /\ shard_log = << >>
    /\ curr_gen = s.first_gen
    /\ curr_games = 0

\* The server is not running.
ServerIdle == ServerAt("idle", NoStartup, "unspawned", { }, 0)

\* The Collector just spawned, for every games_per_gen, first_gen and
\* capacity of the update channel of the bounds; the other threads of the
\* scope are stood for by Upd_Send and Upd_Close.
InitCollector ==
    /\ \E cpu \in 1 .. MaxCpuThreads, g \in 1 .. MaxGamesPerGen, f \in 0 .. MaxFirstGen :
          ServerAt("join", WithShards(PipelineStartup(cpu, 1).startup, g, f),
                   "running", { "commander" }, MaxUpdates)
    /\ SelfuniIdle
    /\ TuiIdle
    /\ EncoderIdle

CollectorNext == Upd_Send \/ Upd_Close \/ C_Receive

CollectorSpec == InitCollector /\ [][CollectorNext]_vars

\* main_impl has spawned the generators and entered main_collector.
InitSelfuni ==
    /\ ServerIdle
    /\ TuiIdle
    /\ EncoderIdle
    /\ args \in ArgsSet
    /\ gen_pc = [ t \in 1 .. args.thread_count |-> "play" ]
    /\ gen_board = [ t \in 1 .. args.thread_count |-> StartPos(args) ]
    /\ gen_positions = [ t \in 1 .. args.thread_count |-> << >> ]
    /\ sim_chan = << >>
    /\ receiver_open = TRUE
    /\ games_received = 0
    /\ mc_pc = "collect"
    /\ sim_tags = << >>
    /\ sims_sent = 0
    /\ output = << >>
    /\ finish_calls = 0

SelfuniNext ==
    \/ \E t \in Generators : G_Move(t) \/ G_Send(t)
    \/ MC_Receive
    \/ MC_Finish
    \/ MC_Join

SelfuniSpec == InitSelfuni /\ [][SelfuniNext]_vars

\* selfuni with every thread scheduled: a generator that can take a step
\* takes one, and so does the main thread.
SelfuniFairness ==
    /\ \A t \in 1 .. MaxThreadCount :
          WF_vars(t \in Generators /\ (G_Move(t) \/ G_Send(t)))
    /\ WF_vars(MC_Receive \/ MC_Finish \/ MC_Join)

FairSelfuniSpec == InitSelfuni /\ [][SelfuniNext]_vars /\ SelfuniFairness

\* kz-tui: main_impl has built the initial tree (the root alone, visits = 0)
\* on any root board and enters the event loop.
InitTui ==
    /\ ServerIdle
    /\ SelfuniIdle
    /\ EncoderIdle
    /\ \E board \in 0 .. MaxTuiHeap : tree = NewTree(board)
    /\ requests = << >>
    /\ board_cache = << >>
    /\ prev_nodes = << >>
    /\ expanded_nodes = { 0 }
    /\ selected_node = 0
    /\ view_offset = 0
    /\ prev_area = None
    /\ tui_pc = "draw"
    /\ tui_panic = ""
    /\ gathered = << >>
    /\ applied = << >>

TuiNext ==
    \/ Draw
    \/ KeyQ
    \/ Restore
    \/ KeyG
    \/ KeyA
    \/ \E alt \in BOOLEAN : KeyS(alt)
    \/ KeyUp
    \/ KeyDown
    \/ KeyRight
    \/ KeyLeft
    \/ \E row \in 0 .. MaxTermHeight - 1 : MouseUp(row)
    \/ OtherEvent

TuiSpec == InitTui /\ [][TuiNext]_vars

\* The tree in which gather has visited every node: every node whose board
\* is not done has its children.
RECURSIVE FullTree(_)
FullTree(t) ==
    LET open == { n \in DOMAIN t.nodes :
                    t.nodes[n].children = None /\ ~is_done(PathBoard(t, n)) }
    IN IF open = { } THEN t
       ELSE FullTree(PushChildren(t, CHOOSE n \in open : \A m \in open : n <= m))

\* The terminals of a draw of RenderSpec: one column, any height.
RenderSizes == [ width : { 5 }, height : MinTerm .. MaxRenderHeight ]

\* kz-tui before a draw: a fully searched tree with every node expanded,
\* any node selected, any view_offset left by earlier draws.
InitRender ==
    /\ ServerIdle
    /\ SelfuniIdle
    /\ EncoderIdle
    /\ \E board \in 0 .. MaxRenderHeap : tree = FullTree(NewTree(board))
    /\ requests = << >>
    /\ board_cache = << >>
    /\ prev_nodes = << >>
    /\ expanded_nodes = DOMAIN tree.nodes
    /\ selected_node \in DOMAIN tree.nodes
    /\ view_offset \in 0 .. MaxViewOffset
    /\ prev_area = None
    /\ tui_pc = "draw"
    /\ tui_panic = ""
    /\ gathered = << >>
    /\ applied = << >>

RenderNext == DrawOn(RenderSizes)

RenderSpec == InitRender /\ [][RenderNext]_vars

\* trictrac: encode_input is called on a board of the bounds with buffers
\* that may hold earlier entries.
InitEncode ==
    /\ ServerIdle
    /\ SelfuniIdle
    /\ TuiIdle
    /\ game_state \in GameStates
    /\ \E n \in 0 .. MaxBuffered :
          /\ bools = [ i \in 1 .. n |-> FALSE ]
          /\ scalars = [ i \in 1 .. n |-> Weight(0, 1) ]
    /\ enc_pc = "call"

EncodeNext == encode_input

EncodeSpec == InitEncode /\ [][EncodeNext]_vars

StartupSpec == InitStartup /\ [][Next]_vars

BackpressureSpec == InitBackpressure /\ [][Next]_vars

\* Every thread that can run does run, and a move ends after a finite visit
\* budget: the end of a move is strongly fair, since it competes with the
\* gathers of the same search.  Nothing is assumed of the client, and no panic
\* has to happen.
Fairness ==
    /\ WF_vars(Main)
    /\ \A e \in 1 .. MaxCpuThreads :
          /\ WF_vars(e \in Spawned /\ (E_Poll(e) \/ E_SendRequest(e) \/ E_Apply(e)
                                         \/ E_ReplyDropped(e) \/ E_SendSimulation(e)))
          /\ SF_vars(e \in Spawned /\ E_MoveDone(e))
    /\ \A d \in 1 .. MaxDevices : WF_vars(d \in DOMAIN inf_pc /\ Inference(d))
    /\ WF_vars(C_Receive)
    /\ WF_vars(Commander)

FairSpec == InitShutdown /\ [][Next]_vars /\ Fairness

\* One device with one Executor and a client that sends one more command, and
\* one command out of order.
ReconfigureRuns ==
    { << PipelineStartup(1, 1), 1 >>,
      << Command("NewNetwork", NoStartup, 0), 1 >> }

InitReconfigure ==
    InitWith(ReconfigureRuns, { FALSE }, MaxCommands + 1, MaxPanics, MaxSims)

ReconfigureSpec == InitReconfigure /\ [][Next]_vars /\ Fairness

\* Every game, one that does not parse, both flavours, a start position that
\* is not the default and every state of the output folder, with valid batch
\* sizes, on one device with one Executor; and one command out of order.
DispatchRuns ==
    { << Command("StartupSettings",
                 StartupSettings(game, muzero, start, exists, absolute, 1, 1, 1, 1),
                 0), 1 >> :
        game \in Games \cup { "checkers" }, muzero \in BOOLEAN,
        start \in { "default", "random" }, exists \in BOOLEAN,
        absolute \in BOOLEAN }
    \cup { << Command("Stop", NoStartup, 0), 1 >> }

InitDispatch == InitWith(DispatchRuns, BOOLEAN, MaxCommands, MaxPanics, MaxSims)

DispatchSpec == InitDispatch /\ [][Next]_vars


\* ------------------------------------------------------------------ claims
\* Some thread of the pipeline has been spawned.
SomeThreadSpawned ==
    \/ Spawned # { }
    \/ DOMAIN inf_pc # { }
    \/ col_pc # "unspawned"
    \/ cmd_pc # "unspawned"

\* The main thread failed before it reached selfplay_start.
FailedAtStartup == pc = "panicked" /\ panic_msg # ErrScope

\* The main thread has entered selfplay_start.
EnteredSelfplayStart == pc # "startup" /\ ~FailedAtStartup

\* Every thread of the scope has ended.
AllThreadsEnded ==
    /\ \A e \in Spawned : exec_pc[e] \in { "done", "panicked" }
    /\ \A d \in DOMAIN inf_pc : inf_pc[d] = "done"
    /\ col_pc \in { "unspawned", "done" }
    /\ cmd_pc \in { "unspawned", "done" }

FirstIsStartup == first_command.kind = "StartupSettings"

BatchSizesValid(s) ==
    s.gpu_batch_size >= s.search_batch_size /\ s.search_batch_size >= 1

\* C1: threads are spawned, and selfplay_start is entered, only if the received
\* StartupSettings satisfy gpu_batch_size >= search_batch_size >= 1; for every
\* StartupSettings violating this, startup aborts before selfplay_start.
C1_BatchSizesGuardSpawn ==
    /\ (SomeThreadSpawned \/ EnteredSelfplayStart) =>
          FirstIsStartup /\ BatchSizesValid(first_command.startup)
    /\ (FirstIsStartup /\ ~BatchSizesValid(first_command.startup) /\ pc # "startup") =>
          FailedAtStartup /\ ~SomeThreadSpawned
             /\ panic_msg \in { ErrGpuZero, ErrSearchZero, ErrGpuSmaller }

\* Startup was refused for a GPU batch size smaller than the search batch size.
C1_Witness ==
    /\ FailedAtStartup
    /\ panic_msg = ErrGpuSmaller
    /\ first_command.startup.gpu_batch_size = 1
    /\ first_command.startup.search_batch_size = 2

MuZeroValid(s) == s.search_batch_size = 1 /\ s.gpu_batch_size_root >= 1

\* C2: with muzero = true, selfplay_start is entered only if search_batch_size
\* is 1 and gpu_batch_size_root >= 1; any other value fails with one of the
\* invariant-violation errors and no thread is spawned (search_batch_size = 2
\* with otherwise valid batch sizes fails with the MuZero search-batch error).
C2_MuZeroGuard ==
    (FirstIsStartup /\ first_command.startup.muzero) =>
       LET s == first_command.startup IN
       /\ EnteredSelfplayStart => MuZeroValid(s)
       /\ (~MuZeroValid(s) /\ pc # "startup") =>
             /\ FailedAtStartup
             /\ ~SomeThreadSpawned
             /\ panic_msg \in { ErrGpuZero, ErrSearchZero, ErrGpuSmaller,
                                ErrRootZero, ErrMuSearch }
       /\ (s.search_batch_size = 2 /\ s.gpu_batch_size >= 2
             /\ s.gpu_batch_size_root >= 1 /\ pc # "startup") =>
             panic_msg = ErrMuSearch

\* MuZero with search_batch_size = 2 was refused.
C2_Witness ==
    /\ FailedAtStartup
    /\ first_command.startup.muzero
    /\ first_command.startup.search_batch_size = 2
    /\ panic_msg = ErrMuSearch
    /\ ~SomeThreadSpawned

\* C3: if the first command is not StartupSettings the server fails at once:
\* it reads no further command, spawns no thread and creates no shard.
C3_FirstCommandMustBeStartup ==
    (~FirstIsStartup /\ pc # "startup") =>
       /\ FailedAtStartup
       /\ panic_msg = ErrNotStartup
       /\ n_read = 1
       /\ ~SomeThreadSpawned
       /\ shards = 0

\* The server failed on NewSettings as its first command.
C3_Witness ==
    /\ first_command.kind = "NewSettings"
    /\ FailedAtStartup
    /\ panic_msg = ErrNotStartup
    /\ n_read = 1

\* C4: every configuration error detected at startup is reported to the client
\* on the control channel before the process exits.
C4_StartupErrorsReported == FailedAtStartup => "Error" \in written

\* C5: selfplay_start returns (or fails) only after every thread it spawned
\* has terminated.
C5_ScopeJoinsAllThreads ==
    (pc \in { "returned", "panicked" } /\ EnteredSelfplayStart) => AllThreadsEnded

\* selfplay_start returned after the threads of two devices ended.
C5_Witness ==
    /\ pc = "returned"
    /\ devices = 2
    /\ Cardinality(Spawned) = 2
    /\ col_pc = "done"
    /\ cmd_pc = "done"


\* C6: once the Commander has exited (the connection closed or Stop was
\* received), dropping its senders, every Executor, every Inference thread and
\* the Collector eventually exit and selfplay_start eventually returns.
C6_ShutdownCompletes ==
    (cmd_pc = "done") ~> (AllThreadsEnded /\ pc \in { "returned", "panicked" })

\* A run of two devices shut down by the client and joined.
C6_Witness ==
    /\ cmd_pc = "done"
    /\ pc = "returned"
    /\ Cardinality(Spawned) >= 2
    /\ \A e \in Spawned : exec_pc[e] = "done"
    /\ \A d \in DOMAIN inf_pc : inf_pc[d] = "done"

\* C7: if an Executor thread panics while the other threads keep running,
\* selfplay_start eventually ends in failure.
C7_ExecutorPanicIsFatal ==
    (\E e \in Spawned : exec_pc[e] = "panicked") ~> (pc = "panicked")

\* The capacity the update channel is created with in selfplay_start.
TotalCpuThreads == startup.cpu_threads_per_device * devices

\* A step leaves the update channel alone, appends one message to a channel
\* that was not full, or hands its oldest message to the running Collector.
UpdateChannelStep ==
    \/ update_chan' = update_chan
    \/ /\ Len(update_chan) < TotalCpuThreads
       /\ \E m \in { "Simulation", "Done" } : update_chan' = Append(update_chan, m)
    \/ /\ update_chan # << >>
       /\ col_pc = "running"
       /\ update_chan' = Tail(update_chan)

\* An Executor gets past its send only by appending its Simulation, unless the
\* Collector is gone.
UpdateSenderStep ==
    \A e \in Spawned :
       (exec_pc[e] = "send_sim" /\ exec_pc'[e] # "send_sim") =>
          \/ update_chan' = Append(update_chan, "Simulation") /\ exec_pc'[e] = "boundary"
          \/ col_pc = "done" /\ exec_pc'[e] = "done"

\* C8: the update channel never holds more than total_cpu_threads =
\* cpu_threads_per_device * devices messages; a sender that finds it full
\* blocks until the Collector receives; no sent message is dropped (the
\* Collector leaves only an empty channel) or delivered twice.
C8_UpdateChannelBounded ==
    /\ [](EnteredSelfplayStart =>
            /\ Len(update_chan) <= TotalCpuThreads
            /\ (col_pc = "done" => update_chan = << >>))
    /\ [][UpdateChannelStep /\ UpdateSenderStep]_vars

\* The update channel of two devices is full and an Executor waits to send.
C8_Witness ==
    /\ devices = 2
    /\ Len(update_chan) = TotalCpuThreads
    /\ \E e \in Spawned : exec_pc[e] = "send_sim"
    /\ col_pc = "running"

\* Requests of device d sent and not yet answered.
InFlight(d) == Cardinality({ e \in Spawned : DeviceOf(e) = d /\ reply[e] = "pending" })

\* C9: at any instant the number of in-flight evaluation requests per
\* device, queued or drained into a batch, is at most 2 * gpu_batch_size.
C9_InFlightAtMostTwoBatches ==
    \A d \in DOMAIN inf_pc : InFlight(d) <= 2 * startup.gpu_batch_size

\* C10: the Commander holds exactly the settings senders and graph senders of
\* all devices, each once, so a completed NewSettings broadcast has reached
\* every running Executor and a completed NewNetwork broadcast every running
\* Inference thread.
C10_CommanderHoldsAllSenders ==
    cmd_pc \notin { "unspawned", "done" } =>
       /\ Len(settings_senders) = TotalCpuThreads
       /\ Range(settings_senders) = 1 .. TotalCpuThreads
       /\ Range(settings_senders) = Spawned
       /\ Len(graph_senders) = devices
       /\ Range(graph_senders) = 1 .. devices
       /\ \A e \in Spawned :
             \/ Terminated(e)
             \/ exec_settings[e] >= last_settings
             \/ settings_chan[e] # << >> /\ Head(settings_chan[e]) >= last_settings
       /\ \A d \in DOMAIN inf_pc :
             \/ inf_pc[d] = "done"
             \/ inf_graph[d] >= last_graph
             \/ graph_chan[d] # << >> /\ Head(graph_chan[d]) >= last_graph

\* A NewSettings broadcast was adopted by the Executors of both devices.
C10_Witness ==
    /\ devices = 2
    /\ cmd_pc = "read"
    /\ last_settings > 0
    /\ \A e \in Spawned : exec_settings[e] = last_settings

\* The board reached from board by playing the played_mv of every position.
RECURSIVE Replay(_, _)
Replay(board, positions) ==
    IF positions = << >> THEN board
    ELSE Replay(play(board, Head(positions).played_mv), Tail(positions))

\* C11: for every Simulation built by main_generator, the first position's
\* board is the start position, each next position's board is the previous
\* board after its played_mv (a move available there), and final_board is the
\* result of playing every played_mv in order from the start position (the
\* start position itself when there are no positions).
C11_SimulationReplays ==
    \A sim \in Range(sim_chan) :
       LET ps == sim.positions IN
       /\ ps = << >> => sim.final_board = StartPos(args)
       /\ ps # << >> => ps[1].board = StartPos(args)
       /\ \A i \in 1 .. Len(ps) :
             ps[i].played_mv \in Range(available_moves(ps[i].board))
       /\ \A i \in 1 .. Len(ps) - 1 :
             ps[i + 1].board = play(ps[i].board, ps[i].played_mv)
       /\ sim.final_board = Replay(StartPos(args), ps)

\* A game of two moves that emptied the heap was sent.
C11_Witness ==
    \E sim \in Range(sim_chan) :
       /\ Len(sim.positions) = 2
       /\ sim.positions[1].board = 2
       /\ sim.positions[2].board = 1
       /\ is_done(sim.final_board)

\* The sum of the numerators of a policy.
RECURSIVE SumNum(_)
SumNum(policy) ==
    IF policy = << >> THEN 0 ELSE Head(policy).num + SumNum(Tail(policy))

\* policy has one entry per available move of board, every entry is a
\* non-negative fraction over the same denominator, and the entries sum to 1.
ProperPolicy(policy, board) ==
    /\ Len(policy) = Len(available_moves(board))
    /\ policy # << >>
    /\ \A i \in DOMAIN policy :
          policy[i].num >= 0 /\ policy[i].den > 0 /\ policy[i].den = policy[1].den
    /\ SumNum(policy) = policy[1].den

\* The positions main_generator has recorded or sent.
EmittedPositions ==
    UNION { Range(sim.positions) : sim \in Range(sim_chan) }
    \cup UNION { Range(gen_positions[t]) : t \in Generators }

\* C12: for every Position emitted by main_generator, the search policy and
\* the net policy have one entry per available move of the Position's board,
\* every entry is non-negative and the entries sum to 1; the net policy is
\* uniform, and the search policy is either the net policy or puts the same
\* weight on each best move and 0 elsewhere.
C12_PoliciesAreDistributions ==
    \A p \in EmittedPositions :
       /\ ProperPolicy(p.zero_evaluation.policy, p.board)
       /\ ProperPolicy(p.net_evaluation.policy, p.board)
       /\ \A i \in DOMAIN p.net_evaluation.policy :
             p.net_evaluation.policy[i] = Weight(1, Len(available_moves(p.board)))
       /\ \A i \in DOMAIN p.zero_evaluation.policy :
             p.zero_evaluation.policy[i].num \in { 0, 1 }

\* A solved position with two available moves and one best move was sent.
C12_Witness ==
    \E sim \in Range(sim_chan) : \E p \in Range(sim.positions) :
       /\ Len(p.zero_evaluation.policy) = 2
       /\ \E i \in 1 .. 2 : p.zero_evaluation.policy[i] = Weight(0, 1)
       /\ \E i \in 1 .. 2 : p.zero_evaluation.policy[i] = Weight(1, 1)

\* C13: every shard but the last holds exactly games_per_shard simulations,
\* and shard indices start at first_gen and are contiguous: each newly
\* opened shard has index prev + 1.
C13_ShardsFullAndContiguous ==
    col_pc # "unspawned" =>
       /\ \A i \in DOMAIN shard_log :
             /\ shard_log[i].gen = startup.first_gen + i - 1
             /\ (i < Len(shard_log) \/ col_pc = "running") =>
                   shard_log[i].games = startup.games_per_gen
       /\ col_pc = "running" =>
             /\ curr_gen = startup.first_gen + Len(shard_log)
             /\ curr_games < startup.games_per_gen

SenderIndex(e) ==
    IF e \in Range(settings_senders)
    THEN CHOOSE i \in DOMAIN settings_senders : settings_senders[i] = e
    ELSE 0

\* The latest Settings value the Commander has sent to Executor e, as far as
\* its completed broadcasts and the one in progress tell.
SettingsSentTo(e) ==
    IF cmd_pc = "send_settings" /\ SenderIndex(e) # 0 /\ SenderIndex(e) < cmd_idx
    THEN cmd_val ELSE last_settings

\* Executor e takes a value from its settings channel.
Adopts(e) ==
    exec_pc[e] = "boundary" /\ settings_chan[e] # << >> /\ exec_pc'[e] = "search"

Pending(d) == { e \in Spawned : DeviceOf(e) = d /\ reply[e] = "pending" }

\* C16: a broadcast graph is served from the next batch boundary on (at most
\* the batch in progress still runs on the old graph), the swap happens
\* between batches only and keeps every pending request, and every pending
\* request is held exactly once by the Inference thread and gets a response.
C16_GraphSwapKeepsRequests ==
    /\ [](\A d \in DOMAIN inf_pc : inf_pc[d] # "done" =>
            /\ Pending(d) = Range(req_chan[d]) \cup Range(batch[d])
            /\ Len(req_chan[d]) + Len(batch[d]) = Cardinality(Pending(d)))
    /\ [][\A d \in DOMAIN inf_pc :
            /\ (inf_pc[d] = "poll" /\ graph_chan[d] # << >> /\ inf_pc'[d] # "poll") =>
                  /\ inf_graph'[d] = Head(graph_chan[d])
                  /\ req_chan'[d] = req_chan[d]
                  /\ reply' = reply
            /\ inf_graph'[d] # inf_graph[d] =>
                  inf_pc[d] = "poll" /\ batch[d] = << >>]_vars
    /\ \A e \in 1 .. MaxCpuThreads :
          (e \in Spawned /\ reply[e] = "pending") ~>
             (e \in Spawned /\ reply[e] \in { "ready", "dropped" })

\* A request waits in the channel while the Inference thread, between two
\* batches, is about to swap in the graph broadcast by the Commander.
C16_Witness ==
    \E d \in DOMAIN inf_pc :
       /\ inf_pc[d] = "poll"
       /\ graph_chan[d] # << >>
       /\ inf_graph[d] < Head(graph_chan[d])
       /\ req_chan[d] # << >>
       /\ last_graph = Head(graph_chan[d])

C18_DispatchExactlyOnce ==
    /\ Len(dispatched) <= 1
    /\ FailedAtStartup => dispatched = << >>
    /\ EnteredSelfplayStart =>
          /\ Len(dispatched) = 1
          /\ dispatched[1].game = first_command.startup.game
          /\ dispatched[1].game \in Games
    /\ SomeThreadSpawned => Len(dispatched) = 1

\* The pipeline of Go was started, once.
C18_Witness ==
    /\ Len(dispatched) = 1
    /\ dispatched[1].game = "go"
    /\ dispatched[1].board = "GoBoard"
    /\ dispatched[1].mapper = "GoStdMapper"
    /\ SomeThreadSpawned

\* The StartupSettings name a missing or relative output folder, a game that
\* does not parse, or a start position other than "default" for a game with a
\* fixed start position.
BadFolderGameOrStartPos(s) ==
    \/ ~s.folder_exists
    \/ ~s.folder_absolute
    \/ s.game \notin { "ttt", "sttt", "ataxx", "chess", "chess-hist", "arimaa-split",
                       "trictrac", "go" }
    \/ /\ s.game \in { "ttt", "sttt", "chess", "chess-hist", "arimaa-split", "trictrac" }
       /\ s.start_pos # "default"

\* C19: startup aborts before any thread is spawned when the output folder
\* does not exist or is not absolute, when the game does not parse, or when
\* start_pos is not "default" for TTT, STTT, Chess, ChessHist, ArimaaSplit or
\* Trictrac.
C19_BadFolderGameStartPosAbort ==
    (FirstIsStartup /\ BadFolderGameOrStartPos(first_command.startup) /\ pc # "startup") =>
       /\ FailedAtStartup
       /\ ~SomeThreadSpawned
       /\ dispatched = << >>

\* Startup was refused for an output folder that exists but is relative.
C19_Witness ==
    /\ FailedAtStartup
    /\ panic_msg = ErrRelFolder
    /\ first_command.startup.folder_exists
    /\ ~first_command.startup.folder_absolute
    /\ ~SomeThreadSpawned

\* C20: with muzero = true and a game whose board is not alternating
\* (ArimaaSplit, Trictrac, Go), startup fails before selfplay_start is called
\* (in selfplay_start_dispatch_spec_non_alt when no earlier check fails), no
\* thread is spawned, and no pipeline ever runs MuZero with a mapper whose
\* MuZeroMapper methods panic.
C20_MuZeroNonAltRefused ==
    /\ (FirstIsStartup /\ first_command.startup.muzero /\ pc # "startup"
          /\ first_command.startup.game \in { "arimaa-split", "trictrac", "go" }) =>
          /\ FailedAtStartup
          /\ ~SomeThreadSpawned
          /\ dispatched = << >>
          /\ (/\ BatchSizesValid(first_command.startup)
              /\ MuZeroValid(first_command.startup)
              /\ ~BadFolderGameOrStartPos(first_command.startup)) =>
                panic_msg = ErrNonAlt
    /\ \A i \in DOMAIN dispatched :
          ~(dispatched[i].spec = "MuZeroSpecialization"
              /\ MuZeroMapperPanics(dispatched[i].mapper))

\* MuZero on Trictrac was refused by selfplay_start_dispatch_spec_non_alt.
C20_Witness ==
    /\ FailedAtStartup
    /\ panic_msg = ErrNonAlt
    /\ first_command.startup.game = "trictrac"
    /\ first_command.startup.muzero
    /\ dispatched = << >>

\* C21: in selfuni, for any number of generator threads and any interleaving,
\* main_collector appends exactly game_count simulations to the output, each
\* of them a Simulation some generator sent, none appended twice and none
\* still in the channel; finish is called once, after the last append; and
\* the channel never holds more than 2 * thread_count simulations.
C21_CollectorAppendsEachOnce ==
    /\ Len(output) = games_received
    /\ Len(output) <= args.game_count
    /\ \A i \in DOMAIN output : output[i] \in 1 .. sims_sent
    /\ \A i, j \in DOMAIN output : output[i] = output[j] => i = j
    /\ \A i \in DOMAIN output : output[i] \notin Range(sim_tags)
    /\ finish_calls <= 1
    /\ finish_calls = 1 <=> mc_pc \in { "join", "done" }
    /\ finish_calls = 1 => Len(output) = args.game_count
    /\ Len(sim_chan) <= 2 * args.thread_count

\* Two generators: two simulations were appended, finish was called, and the
\* channel was full (four simulations) when the receiver was dropped.
C21_Witness ==
    /\ args.thread_count = 2
    /\ args.game_count = 2
    /\ Len(output) = 2
    /\ finish_calls = 1
    /\ sims_sent = 6

\* C22: in selfuni, for every thread_count >= 1, every game_count and every
\* max_game_length, main_impl eventually returns: once main_collector has
\* received game_count simulations and dropped the receiver, every generator
\* (one blocked on the full channel too) sees the send fail and ends, and the
\* scope is joined.
C22_MainImplReturns == <>(mc_pc = "done")

\* main_impl returned with two generators after the channel had been full
\* when the receiver was dropped.
C22_Witness ==
    /\ mc_pc = "done"
    /\ args.thread_count = 2
    /\ args.game_count = 1
    /\ sims_sent = args.game_count + SimCapacity(args)
    /\ \A t \in Generators : gen_pc[t] = "done"

\* C23: every Simulation sent by main_generator has at most max_game_length
\* positions, no position's board is done, and final_board is done or the
\* Simulation has exactly max_game_length positions.
C23_SimulationWithinLength ==
    \A sim \in Range(sim_chan) :
       /\ Len(sim.positions) <= args.max_game_length
       /\ \A i \in DOMAIN sim.positions : ~is_done(sim.positions[i].board)
       /\ is_done(sim.final_board) \/ Len(sim.positions) = args.max_game_length

\* A game cut at max_game_length with tokens left on the heap was sent.
C23_Witness ==
    \E sim \in Range(sim_chan) :
       /\ Len(sim.positions) = args.max_game_length
       /\ Len(sim.positions) >= 1
       /\ ~is_done(sim.final_board)

\* C24: in the viewer, after any sequence of gather, apply, expand and
\* render steps, the board memoized for a node is the board obtained by
\* playing last_move along the path from the root to that node, and
\* node_board never inserts an entry for a node that has one
\* (assert!(prev.is_none()) never fails), although the cache is never
\* invalidated.
C24_CacheMatchesReplay ==
    /\ \A n \in DOMAIN board_cache :
          /\ n \in DOMAIN tree.nodes
          /\ board_cache[n] = PathBoard(tree, n)
    /\ tui_panic # ErrPrevIsNone

\* The board of a node two moves below the root is memoized, in a tree that
\* grew by a second gather after its first rows had been drawn.
C24_Witness ==
    /\ \E n \in DOMAIN board_cache :
          /\ tree.nodes[n].parent # None
          /\ tree.nodes[tree.nodes[n].parent[1]].parent # None
          /\ board_cache[n] # tree.root_board
    /\ Len(applied) >= 1

\* C25: in the event loop of the viewer, after the 's' key without ALT
\* (every outstanding request applied, one gather step, at most one request
\* applied) the queue of outstanding requests is empty, whatever 'g', 'a'
\* and 's' keys came before: assert!(requests.is_empty()) never fails.
C25_QueueEmptyAfterStep ==
    [][ KeyS(FALSE) => ( requests' = << >> /\ tui_panic' # ErrRequestsEmpty
                          /\ tui_pc' = "draw" ) ]_vars

\* Two requests were gathered and both are applied; the queue is empty and
\* the loop is about to draw.
C25_Witness ==
    /\ tui_pc = "draw"
    /\ requests = << >>
    /\ Len(gathered) = 2
    /\ applied = gathered

\* C26: in the event loop of the viewer, every request produced by a gather
\* step is applied to the tree at most once and the requests are applied in
\* the order they were gathered; the 'a' key on an empty queue leaves the
\* tree unchanged; and a request still queued when 'q' is pressed is never
\* applied.
C26_RequestsAppliedOnceInOrder ==
    /\ []( /\ \A i, j \in DOMAIN applied : applied[i] = applied[j] => i = j
           /\ Len(applied) <= Len(gathered)
           /\ applied = Take(gathered, Len(applied))
           /\ \A i \in DOMAIN applied : tree.nodes[applied[i]].evaluated )
    /\ [][ /\ (KeyA /\ requests = << >>) => tree' = tree
           /\ tui_pc \in { "quit", "exited" } => (applied' = applied /\ tree' = tree)
         ]_vars

\* The viewer was left with one request applied and a later one, still
\* queued at 'q', not applied.
C26_Witness ==
    /\ tui_pc = "exited"
    /\ Len(gathered) = 2
    /\ applied = << gathered[1] >>
    /\ ~tree.nodes[gathered[2]].evaluated

\* C27: in the viewer, whenever selected_index is evaluated (in
\* prepare_render and on the Up and Down keys in handle_event) the selected
\* node is in prev_nodes, for every sequence of key and mouse events and of
\* terminal sizes, draws on an empty inner area (which skip prepare_render)
\* included: the unwrap in selected_index never fails.
C27_SelectedNodeListed == tui_panic # ErrSelectedIndex

\* C28: for every render area that is not empty (height >= 1, width >= 1),
\* every selected row and every previous view_offset, one draw
\* (prepare_render, then render) completes: the clamp of prepare_render has
\* its lower bound <= its upper bound, the offset is >= 0, and
\* area.height - HEADER_SIZE in render does not go below zero.
C28_DrawCompletes == tui_panic \notin { ErrClamp, ErrOffset, ErrUnderflow }

\* The 0-based row of the selected node in prev_nodes.
SelectedRow == position(prev_nodes, selected_node)[1]

\* prepare_render has returned on an area higher than the header.
DrawnWithRows ==
    /\ tui_pc = "event"
    /\ prev_area # None
    /\ prev_area[1].width * prev_area[1].height > 0
    /\ prev_area[1].height > HEADER_SIZE

\* C29: whenever prepare_render returns normally for an area with
\* height > HEADER_SIZE, the row of the selected node lies inside the window
\* that render draws: view_offset <= selected_index <
\* view_offset + (area.height - HEADER_SIZE).
C29_SelectedRowInWindow ==
    DrawnWithRows =>
       /\ position(prev_nodes, selected_node) # None
       /\ view_offset <= SelectedRow
       /\ SelectedRow < view_offset + (prev_area[1].height - HEADER_SIZE)

\* A draw that scrolled down: the window starts below the first row and the
\* selected row is as low in the window as the margin allows.
C29_Witness ==
    /\ DrawnWithRows
    /\ prev_area[1].height = 10
    /\ view_offset > 0
    /\ SelectedRow = view_offset + (prev_area[1].height - HEADER_SIZE) - OFFSET_MARGIN

\* C30: for every Trictrac board, TrictracStdMapper::encode_input appends
\* exactly input_bool_shape()[0] * [1] * [2] = 2 * 15 * 24 = 720 booleans
\* and exactly input_scalar_count() = 15 scalars, so what is encoded has the
\* declared input shape.
C30_EncodedSizeMatchesShape ==
    [][ encode_input =>
          /\ Len(bools') = Len(bools)
                             + input_bool_shape[1] * input_bool_shape[2]
                               * input_bool_shape[3]
          /\ input_bool_shape[1] * input_bool_shape[2] * input_bool_shape[3] = 720
          /\ Len(scalars') = Len(scalars) + input_scalar_count
          /\ input_scalar_count = 15
          /\ SubSeq(bools', 1, Len(bools)) = bools
          /\ SubSeq(scalars', 1, Len(scalars)) = scalars ]_vars

\* encode_input has returned on buffers that held an entry each: a board with
\* two white checkers on field 1, White to play, set the bit of (pov player,
\* 2 checkers, field 1).
C30_Witness ==
    /\ enc_pc = "returned"
    /\ Len(bools) = 1 + 720
    /\ Len(scalars) = 1 + 15
    /\ game_state.active = "White"
    /\ bools[1 + 2 * 24 + 1]

====
